---- MODULE Spec2Model ----
(***************************************************************************)
(* A model of the ratelink rate-limiting core: the single-key admission    *)
(* algorithms, the composite limiters built on them, the in-process        *)
(* backend and the RateLimiter facade.                                     *)
(*                                                                         *)
(* Time is counted in ticks of the clock read by time.time().  Real-valued *)
(* token counts are kept exactly as integers scaled by a fixed denominator *)
(* (a token is TBDen units; a refill adds TBRefillNum units per tick).     *)
(***************************************************************************)
EXTENDS Integers, Sequences, FiniteSets, TLC

VARIABLES
    now,                \* the reading of time.time(), in ticks
    res,                \* the outcome of the last call (decision record + the state it read)
    tb_buckets,         \* TokenBucketAlgorithm._buckets
    tb_burst,           \* history: unit admissions at this instant since the bucket was full
    sw_requests,        \* SlidingWindowAlgorithm._requests
    sw_log,             \* history: the admissions of the last window, per key
    fw_windows,         \* FixedWindowAlgorithm._windows
    fw_admitted,        \* history: weight admitted in the aligned window holding now
    gcra_tats,          \* GCRAAlgorithm._tats
    gcra_burst,         \* history: unit admissions at this instant since the key was unseen
    gcra_last_admit,    \* history: the instant of the key's last admission
    htb_limits,         \* HierarchicalTokenBucket global_limit, tenant_limit, user_limit
    htb_global_bucket,  \* HierarchicalTokenBucket._global_bucket
    htb_tenant_buckets, \* HierarchicalTokenBucket._tenant_buckets
    htb_user_buckets,   \* HierarchicalTokenBucket._user_buckets
    htb_admitted,       \* history: unit admissions since construction, while no time passed
    fq_max_per_key,     \* FairQueueingAlgorithm.max_per_key (0 for None)
    fq_key_counts,      \* FairQueueingAlgorithm._key_counts
    fq_saturation,      \* history: the saturation run of the fairness property
    rl_buckets,         \* per RateLimiter instance: its own algorithm's _buckets
    rl_admitted,        \* history: units admitted per key at this instant by all instances
    mem_ttl_seconds,    \* MemoryBackend.ttl_seconds (NoTTL for None)
    mem_store,          \* MemoryBackend._store
    mem_last_cleanup,   \* MemoryBackend._last_cleanup
    remote_kind,        \* which remote backend was constructed: "postgresql" or "dynamodb"
    remote_table,       \* the rows of the rate_limits table, per key
    remote_calls,       \* per client: where its consume call in flight stands
    remote_admitted,    \* history: weight of the consumes that returned admitted since the key's last reset
    lb_buckets,         \* LeakyBucketAlgorithm._buckets
    lb_unobserved,      \* history: _buckets as the same allows and resets leave it when no check is made
    algorithm,          \* RateLimiter.algorithm: the algorithm the facade was constructed with
    pl_buckets,         \* PriorityRateLimiter._limiters: per limited tier, its token bucket's _buckets
    qp_options,         \* QuotaPool.fair_share, max_per_member (0 for None), rollover, rollover_percent
    qp_bucket,          \* the pool limiter's token bucket for pool_id
    qp_member_usage,    \* QuotaPool._member_usage
    qp_forced,          \* history: a consume with force=True was admitted since the last reset
    qp_rollover_quota,  \* QuotaPool._rollover_quota
    al_base_limit,      \* AdaptiveRateLimiter.base_limit
    al_current_limit,   \* AdaptiveRateLimiter.current_limit
    al_results,         \* AdaptiveRateLimiter._request_results: how many samples, how many of them errors
    al_latencies,       \* AdaptiveRateLimiter._request_latencies: how many samples, their sum
    al_last_check,      \* AdaptiveRateLimiter._last_check
    al_adaptations,     \* AdaptiveRateLimiter._adaptations
    al_capacity,        \* the capacity of the token bucket algorithm inside AdaptiveRateLimiter._limiter
    al_bucket,          \* that algorithm's bucket for the key
    al_adapted_at,      \* history: the instant of the last call of _adapt_limit
    mr_failover_mode,   \* MultiRegionBackend.failover_mode
    mr_cache,           \* MultiRegionBackend._cache: per key, (state, timestamp)
    mr_last_sync,       \* MultiRegionBackend._last_sync
    mr_region,          \* the regional MemoryBackend's _store
    hk_raise_on_limit,  \* RateLimiter.raise_on_limit of the limiter with hooks
    hk_hooks,           \* RateLimiter._hooks: per event, the callbacks in registration order
    hk_bucket,          \* that limiter's token bucket for the key
    ct_algorithm,       \* which algorithm instance the worker threads share: "token_bucket" or "fixed_window"
    ct_state,           \* that instance's _buckets[key] or _windows[key]
    ct_lock,            \* that instance's _lock: the thread holding it
    ct_pc,              \* per thread: where its allow(key, 1) stands
    ct_time,            \* per thread: current_time, read before the lock is taken
    ct_local,           \* per thread: what the body of allow computed from the state it read
    ct_base,            \* history: the stored state when the first call of the batch began
    ct_start,           \* history: the instant when the first call of the batch began
    fwj_window,         \* a FixedWindowAlgorithm under a time source that may step back: its _windows[key]
    fwj_admitted,       \* history: per aligned window, the weight admitted with a timestamp in it
    pu_pc,              \* per thread calling upgrade_tier(key, "free", "pro", True): the statement it is at
    pu_state,           \* per such thread: the state its old_limiter.check(old_key) returned
    pu_admitted,        \* history: the weight that allow(key, "free") has admitted
    pu_debited          \* history: the weight that upgrade_tier has taken from the key's "pro" counter

tbVars == <<tb_buckets, tb_burst>>
swVars == <<sw_requests, sw_log>>
fwVars == <<fw_windows, fw_admitted>>
gcraVars == <<gcra_tats, gcra_burst, gcra_last_admit>>
htbVars == <<htb_limits, htb_global_bucket, htb_tenant_buckets, htb_user_buckets, htb_admitted>>
fqVars == <<fq_max_per_key, fq_key_counts, fq_saturation>>
rlVars == <<rl_buckets, rl_admitted>>
memVars == <<mem_ttl_seconds, mem_store, mem_last_cleanup>>
remoteVars == <<remote_kind, remote_table, remote_calls, remote_admitted>>
lbVars == <<lb_buckets, lb_unobserved>>
algVars == <<algorithm>>
plVars == <<pl_buckets>>
qpVars == <<qp_options, qp_bucket, qp_member_usage, qp_forced, qp_rollover_quota>>
alVars == <<al_base_limit, al_current_limit, al_results, al_latencies, al_last_check, al_adaptations, al_capacity, al_bucket, al_adapted_at>>
mrVars == <<mr_failover_mode, mr_cache, mr_last_sync, mr_region>>
hkVars == <<hk_raise_on_limit, hk_hooks, hk_bucket>>
ctVars == <<ct_algorithm, ct_state, ct_lock, ct_pc, ct_time, ct_local, ct_base, ct_start>>
fwjVars == <<fwj_window, fwj_admitted>>
puVars == <<pu_pc, pu_state, pu_admitted, pu_debited>>
vars == <<now, res, tbVars, swVars, fwVars, gcraVars, htbVars, fqVars, rlVars, memVars, remoteVars, lbVars, algVars, plVars, qpVars, alVars, mrVars, hkVars, ctVars, fwjVars, puVars>>

\* What a call on one component leaves alone: every other component.
tbOthers == <<swVars, fwVars, gcraVars, htbVars, fqVars, rlVars, memVars, remoteVars, lbVars, algVars, plVars, qpVars, alVars, mrVars, hkVars, ctVars, fwjVars, puVars>>
swOthers == <<tbVars, fwVars, gcraVars, htbVars, fqVars, rlVars, memVars, remoteVars, lbVars, algVars, plVars, qpVars, alVars, mrVars, hkVars, ctVars, fwjVars, puVars>>
fwOthers == <<tbVars, swVars, gcraVars, htbVars, fqVars, rlVars, memVars, remoteVars, lbVars, algVars, plVars, qpVars, alVars, mrVars, hkVars, ctVars, fwjVars, puVars>>
gcraOthers == <<tbVars, swVars, fwVars, htbVars, fqVars, rlVars, memVars, remoteVars, lbVars, algVars, plVars, qpVars, alVars, mrVars, hkVars, ctVars, fwjVars, puVars>>
htbOthers == <<tbVars, swVars, fwVars, gcraVars, fqVars, rlVars, memVars, remoteVars, lbVars, algVars, plVars, qpVars, alVars, mrVars, hkVars, ctVars, fwjVars, puVars>>
fqOthers == <<tbVars, swVars, fwVars, gcraVars, htbVars, rlVars, memVars, remoteVars, lbVars, algVars, plVars, qpVars, alVars, mrVars, hkVars, ctVars, fwjVars, puVars>>
rlOthers == <<tbVars, swVars, fwVars, gcraVars, htbVars, fqVars, memVars, remoteVars, lbVars, algVars, plVars, qpVars, alVars, mrVars, hkVars, ctVars, fwjVars, puVars>>
memOthers == <<tbVars, swVars, fwVars, gcraVars, htbVars, fqVars, rlVars, remoteVars, lbVars, algVars, plVars, qpVars, alVars, mrVars, hkVars, ctVars, fwjVars, puVars>>
remoteOthers == <<tbVars, swVars, fwVars, gcraVars, htbVars, fqVars, rlVars, memVars, lbVars, algVars, plVars, qpVars, alVars, mrVars, hkVars, ctVars, fwjVars, puVars>>
lbOthers == <<tbVars, swVars, fwVars, gcraVars, htbVars, fqVars, rlVars, memVars, remoteVars, algVars, plVars, qpVars, alVars, mrVars, hkVars, ctVars, fwjVars, puVars>>
algOthers == <<tbVars, swVars, fwVars, gcraVars, htbVars, fqVars, rlVars, memVars, remoteVars, lbVars, plVars, qpVars, alVars, mrVars, hkVars, ctVars, fwjVars, puVars>>
plOthers == <<tbVars, swVars, fwVars, gcraVars, htbVars, fqVars, rlVars, memVars, remoteVars, lbVars, algVars, qpVars, alVars, mrVars, hkVars, ctVars, fwjVars, puVars>>
qpOthers == <<tbVars, swVars, fwVars, gcraVars, htbVars, fqVars, rlVars, memVars, remoteVars, lbVars, algVars, plVars, alVars, mrVars, hkVars, ctVars, fwjVars, puVars>>
alOthers == <<tbVars, swVars, fwVars, gcraVars, htbVars, fqVars, rlVars, memVars, remoteVars, lbVars, algVars, plVars, qpVars, mrVars, hkVars, ctVars, fwjVars, puVars>>
mrOthers == <<tbVars, swVars, fwVars, gcraVars, htbVars, fqVars, rlVars, memVars, remoteVars, lbVars, algVars, plVars, qpVars, alVars, hkVars, ctVars, fwjVars, puVars>>
hkOthers == <<tbVars, swVars, fwVars, gcraVars, htbVars, fqVars, rlVars, memVars, remoteVars, lbVars, algVars, plVars, qpVars, alVars, mrVars, ctVars, fwjVars, puVars>>
ctOthers == <<tbVars, swVars, fwVars, gcraVars, htbVars, fqVars, rlVars, memVars, remoteVars, lbVars, algVars, plVars, qpVars, alVars, mrVars, hkVars, fwjVars, puVars>>
fwjOthers == <<tbVars, swVars, fwVars, gcraVars, htbVars, fqVars, rlVars, memVars, remoteVars, lbVars, algVars, plVars, qpVars, alVars, mrVars, hkVars, ctVars, puVars>>
puOthers == <<tbVars, swVars, fwVars, gcraVars, htbVars, fqVars, rlVars, memVars, remoteVars, lbVars, algVars, qpVars, alVars, mrVars, hkVars, ctVars, fwjVars>>

(***************************************************************************)
(* Bounds of the model.                                                    *)
(***************************************************************************)
MaxTime == 2

Keys == {"a", "b"}

Absent == [absent |-> TRUE]

NoRes == [op |-> "none"]

Min(x, y) == IF x <= y THEN x ELSE y

Max(x, y) == IF x >= y THEN x ELSE y

(***************************************************************************)
(* Token bucket (TokenBucketAlgorithm).                                    *)
(***************************************************************************)
TBCapacity == 2
TBInitialTokens == 1
TBRefillNum == 3
TBDen == 2

TBWeights == 0 .. (TBCapacity + 1)

TBFull == TBCapacity * TBDen

\* _refill_tokens: the (tokens, current_time) pair the call works on.
TBRefillNoCap(bucket, current_time) ==
    IF bucket = Absent
    THEN [tokens |-> TBInitialTokens * TBDen, last |-> current_time]
    ELSE LET time_passed == current_time - bucket.last
         IN  [tokens |-> IF time_passed > 0
                         THEN bucket.tokens + time_passed * TBRefillNum
                         ELSE bucket.tokens,
              last |-> current_time]

TBRefillTokens(bucket, current_time) ==
    IF bucket = Absent
    THEN [tokens |-> TBInitialTokens * TBDen, last |-> current_time]
    ELSE LET time_passed == current_time - bucket.last
         IN  [tokens |-> IF time_passed > 0
                         THEN Min(TBFull, bucket.tokens + time_passed * TBRefillNum)
                         ELSE bucket.tokens,
              last |-> current_time]

\* The body of allow(key, weight) under the lock, for weight > 0: the bucket it
\* stores and the decision record.  retry_after is kept as its numerator, the
\* units still missing; the wait is retry_after / TBRefillNum ticks.
TBDecide(bucket, weight, current_time) ==
    LET b == TBRefillTokens(bucket, current_time)
        admitted == b.tokens >= weight * TBDen
        tokens == IF admitted THEN b.tokens - weight * TBDen ELSE b.tokens
    IN  [bucket |-> [tokens |-> tokens, last |-> current_time],
         refilled |-> b.tokens,
         allowed |-> admitted,
         limit |-> TBCapacity,
         remaining |-> tokens \div TBDen,
         retry_after |-> IF admitted THEN 0 ELSE weight * TBDen - tokens,
         violated |-> ~admitted]

TBAllow(key, weight) ==
    IF weight <= 0
    THEN /\ res' = [op |-> "tb_allow", key |-> key, weight |-> weight, error |-> TRUE]
         /\ UNCHANGED <<now, tbVars, tbOthers>>
    ELSE LET d == TBDecide(tb_buckets[key], weight, now)
         IN  /\ tb_buckets' = [tb_buckets EXCEPT ![key] = d.bucket]
             /\ res' = [op |-> "tb_allow", key |-> key, weight |-> weight, error |-> FALSE,
                        t |-> now, pre |-> tb_buckets[key], allowed |-> d.allowed,
                        limit |-> d.limit, remaining |-> d.remaining,
                        retry_after |-> d.retry_after, violated |-> d.violated]
             /\ tb_burst' = [tb_burst EXCEPT ![key] =
                    IF weight # 1 THEN 0
                    ELSE IF ~d.allowed THEN @
                    ELSE IF d.refilled = TBFull THEN 1
                    ELSE IF @ > 0 THEN @ + 1 ELSE 0]
             /\ UNCHANGED <<now, tbOthers>>

\* check(key): reads without storing.
TBCheck(key) ==
    LET b == TBRefillTokens(tb_buckets[key], now)
    IN  /\ res' = [op |-> "tb_check", key |-> key, t |-> now, limit |-> TBCapacity,
                   remaining |-> b.tokens \div TBDen, retry_after |-> 0,
                   violated |-> FALSE]
        /\ UNCHANGED <<now, tbVars, tbOthers>>

\* reset(key) / reset(None)
TBReset(key) ==
    /\ tb_buckets' = [tb_buckets EXCEPT ![key] = Absent]
    /\ tb_burst' = [tb_burst EXCEPT ![key] = 0]
    /\ res' = [op |-> "tb_reset", key |-> key]
    /\ UNCHANGED <<now, tbOthers>>

TBResetAll ==
    /\ tb_buckets' = [k \in Keys |-> Absent]
    /\ tb_burst' = [k \in Keys |-> 0]
    /\ res' = [op |-> "tb_reset_all"]
    /\ UNCHANGED <<now, tbOthers>>

TBInit ==
    /\ tb_buckets = [k \in Keys |-> Absent]
    /\ tb_burst = [k \in Keys |-> 0]

(***************************************************************************)
(* Sliding window log (SlidingWindowAlgorithm).                            *)
(***************************************************************************)
SWLimit == 2
SWWindow == 2

SWWeights == 0 .. (SWLimit + 1)

Repeat(x, n) == [i \in 1 .. n |-> x]

RECURSIVE SeqMin(_)
SeqMin(s) == IF Len(s) = 1 THEN s[1] ELSE Min(s[1], SeqMin(Tail(s)))

\* The newest n entries of a time-ordered sequence.
LastN(s, n) == IF Len(s) <= n THEN s ELSE SubSeq(s, Len(s) - n + 1, Len(s))

\* _cleanup_old_requests: the list it returns (and stores, when the key exists).
SWCleanupEarly(requests, current_time) ==
    IF requests = Absent THEN << >>
    ELSE SelectSeq(requests.ts, LAMBDA ts : ts > current_time - SWWindow + 1)

SWCleanupOldRequests(requests, current_time) ==
    IF requests = Absent THEN << >>
    ELSE SelectSeq(requests.ts, LAMBDA ts : ts > current_time - SWWindow)

SWStoreCleaned(requests, current_time) ==
    IF requests = Absent THEN Absent
    ELSE [ts |-> SWCleanupOldRequests(requests, current_time)]

\* The body of allow(key, weight) under the lock, for weight > 0.
SWDecide(stored, weight, current_time) ==
    LET requests == SWCleanupOldRequests(stored, current_time)
        current_count == Len(requests)
    IN  IF current_count + weight <= SWLimit
        THEN [requests |-> [ts |-> requests \o Repeat(current_time, weight)],
              allowed |-> TRUE,
              limit |-> SWLimit,
              remaining |-> SWLimit - (current_count + weight),
              retry_after |-> 0,
              violated |-> FALSE,
              current_count |-> current_count + weight]
        ELSE [requests |-> SWStoreCleaned(stored, current_time),
              allowed |-> FALSE,
              limit |-> SWLimit,
              remaining |-> 0,
              retry_after |-> IF requests # << >>
                              THEN Max(0, SeqMin(requests) + SWWindow - current_time)
                              ELSE 0,
              violated |-> TRUE,
              current_count |-> current_count]

SWAllow(key, weight) ==
    IF weight <= 0
    THEN /\ res' = [op |-> "sw_allow", key |-> key, weight |-> weight, error |-> TRUE]
         /\ UNCHANGED <<now, swVars, swOthers>>
    ELSE LET d == SWDecide(sw_requests[key], weight, now)
         IN  /\ sw_requests' = [sw_requests EXCEPT ![key] = d.requests]
             /\ res' = [op |-> "sw_allow", key |-> key, weight |-> weight, error |-> FALSE,
                        t |-> now, allowed |-> d.allowed,
                        limit |-> d.limit, remaining |-> d.remaining,
                        retry_after |-> d.retry_after, violated |-> d.violated]
             /\ sw_log' = [sw_log EXCEPT ![key] =
                    IF d.allowed
                    THEN [@ EXCEPT !.fresh = @ \o Repeat(now, weight)]
                    ELSE @]
             /\ UNCHANGED <<now, swOthers>>

\* check(key): _cleanup_old_requests stores the pruned list of a known key.
SWCheck(key) ==
    LET requests == SWCleanupOldRequests(sw_requests[key], now)
        remaining == Max(0, SWLimit - Len(requests))
        seconds_until_reset == IF requests # << >>
                               THEN SeqMin(requests) + SWWindow - now
                               ELSE SWWindow
    IN  /\ sw_requests' = [sw_requests EXCEPT ![key] = SWStoreCleaned(@, now)]
        /\ res' = [op |-> "sw_check", key |-> key, t |-> now, limit |-> SWLimit,
                   remaining |-> remaining,
                   retry_after |-> IF remaining > 0 THEN 0 ELSE seconds_until_reset,
                   violated |-> (remaining = 0)]
        /\ UNCHANGED <<now, sw_log, swOthers>>

\* reset(key) / reset(None).  In the history the key's admissions stay, marked
\* as made before the reset (the newest SWLimit + 1 of them: enough to tell
\* whether a window holds more than SWLimit).
SWMarkStale(log) ==
    [fresh |-> << >>, stale |-> LastN(log.stale \o log.fresh, SWLimit + 1)]

SWReset(key) ==
    /\ sw_requests' = [sw_requests EXCEPT ![key] = Absent]
    /\ sw_log' = [sw_log EXCEPT ![key] = SWMarkStale(@)]
    /\ res' = [op |-> "sw_reset", key |-> key]
    /\ UNCHANGED <<now, swOthers>>

SWResetAll ==
    /\ sw_requests' = [k \in Keys |-> Absent]
    /\ sw_log' = [k \in Keys |-> SWMarkStale(sw_log[k])]
    /\ res' = [op |-> "sw_reset_all"]
    /\ UNCHANGED <<now, swOthers>>

SWInit ==
    /\ sw_requests = [k \in Keys |-> Absent]
    /\ sw_log = [k \in Keys |-> [fresh |-> << >>, stale |-> << >>]]

\* The history keeps the admissions of the window (t - SWWindow, t] ending now.
SWLogAt(log, t) ==
    [fresh |-> SelectSeq(log.fresh, LAMBDA ts : ts > t - SWWindow),
     stale |-> SelectSeq(log.stale, LAMBDA ts : ts > t - SWWindow)]

(***************************************************************************)
(* Fixed window (FixedWindowAlgorithm).                                    *)
(***************************************************************************)
FWLimit == 2
FWWindow == 2

FWWeights == 0 .. (FWLimit + 1)

\* _get_window_start
FWGetWindowStart(current_time) == (current_time \div FWWindow) * FWWindow

\* _get_current_window: the (count, window_start) pair the call works on.
FWKeepCount(stored, current_time) ==
    LET window_start == FWGetWindowStart(current_time)
    IN  IF stored = Absent
        THEN [count |-> 0, window_start |-> window_start]
        ELSE [count |-> stored.count, window_start |-> window_start]

FWGetCurrentWindow(stored, current_time) ==
    LET window_start == FWGetWindowStart(current_time)
    IN  IF stored = Absent
        THEN [count |-> 0, window_start |-> window_start]
        ELSE IF window_start > stored.window_start
        THEN [count |-> 0, window_start |-> window_start]
        ELSE [count |-> stored.count, window_start |-> window_start]

\* The body of allow(key, weight) under the lock, for weight > 0.
FWDecide(stored, weight, current_time) ==
    LET w == FWGetCurrentWindow(stored, current_time)
        window_end == w.window_start + FWWindow
    IN  IF w.count + weight <= FWLimit
        THEN [window |-> [count |-> w.count + weight, window_start |-> w.window_start],
              allowed |-> TRUE,
              limit |-> FWLimit,
              remaining |-> FWLimit - (w.count + weight),
              retry_after |-> 0,
              violated |-> FALSE]
        ELSE [window |-> stored,
              allowed |-> FALSE,
              limit |-> FWLimit,
              remaining |-> 0,
              retry_after |-> window_end - current_time,
              violated |-> TRUE]

FWAllow(key, weight) ==
    IF weight <= 0
    THEN /\ res' = [op |-> "fw_allow", key |-> key, weight |-> weight, error |-> TRUE]
         /\ UNCHANGED <<now, fwVars, fwOthers>>
    ELSE LET d == FWDecide(fw_windows[key], weight, now)
         IN  /\ fw_windows' = [fw_windows EXCEPT ![key] = d.window]
             /\ res' = [op |-> "fw_allow", key |-> key, weight |-> weight, error |-> FALSE,
                        t |-> now, pre |-> fw_windows[key], allowed |-> d.allowed,
                        limit |-> d.limit, remaining |-> d.remaining,
                        retry_after |-> d.retry_after, violated |-> d.violated]
             /\ fw_admitted' = [fw_admitted EXCEPT ![key].fresh =
                    IF d.allowed THEN @ + weight ELSE @]
             /\ UNCHANGED <<now, fwOthers>>

FWCheck(key) ==
    LET w == FWGetCurrentWindow(fw_windows[key], now)
        remaining == Max(0, FWLimit - w.count)
        window_end == w.window_start + FWWindow
    IN  /\ res' = [op |-> "fw_check", key |-> key, t |-> now, limit |-> FWLimit,
                   remaining |-> remaining,
                   retry_after |-> IF remaining > 0 THEN 0 ELSE window_end - now,
                   violated |-> (remaining = 0)]
        /\ UNCHANGED <<now, fwVars, fwOthers>>

\* reset(key) / reset(None).  In the history the key's admissions stay, counted
\* as made before the reset (up to FWLimit + 1: enough to tell whether the
\* window holds more than FWLimit).
FWMarkStale(admitted) ==
    [fresh |-> 0, stale |-> Min(admitted.stale + admitted.fresh, FWLimit + 1)]

FWReset(key) ==
    /\ fw_windows' = [fw_windows EXCEPT ![key] = Absent]
    /\ fw_admitted' = [fw_admitted EXCEPT ![key] = FWMarkStale(@)]
    /\ res' = [op |-> "fw_reset", key |-> key]
    /\ UNCHANGED <<now, fwOthers>>

FWResetAll ==
    /\ fw_windows' = [k \in Keys |-> Absent]
    /\ fw_admitted' = [k \in Keys |-> FWMarkStale(fw_admitted[k])]
    /\ res' = [op |-> "fw_reset_all"]
    /\ UNCHANGED <<now, fwOthers>>

FWInit ==
    /\ fw_windows = [k \in Keys |-> Absent]
    /\ fw_admitted = [k \in Keys |-> [fresh |-> 0, stale |-> 0]]

(***************************************************************************)
(* GCRA (GCRAAlgorithm).  Instants and the theoretical arrival time are    *)
(* kept in units of 1 / GCRALimit tick, in which the emission interval     *)
(* period_seconds / limit is GCRAPeriod and a tick is GCRALimit.           *)
(***************************************************************************)
GCRALimit == 2
GCRAPeriod == 3
GCRABurst == 2

GCRAWeights == 0 .. (GCRABurst + 1)

GCRAEmissionInterval == GCRAPeriod

GCRABurstAllowance == GCRAEmissionInterval * GCRABurst

GCRATime(t) == t * GCRALimit

\* The body of allow(key, weight) under the lock, for weight > 0; current_time
\* in units of 1 / GCRALimit tick.
GCRADecideStoreOnDenial(stored, weight, current_time) ==
    LET tat == IF stored = Absent THEN current_time ELSE stored.tat
        new_tat == Max(tat, current_time) + GCRAEmissionInterval * weight
        allow_at == new_tat - GCRABurstAllowance
    IN  [tat |-> [tat |-> new_tat],
         allowed |-> current_time >= allow_at,
         limit |-> GCRALimit,
         remaining |-> 0,
         retry_after |-> IF current_time >= allow_at THEN 0 ELSE allow_at - current_time,
         violated |-> ~(current_time >= allow_at),
         meta_tat |-> new_tat]

GCRADecide(stored, weight, current_time) ==
    LET tat == IF stored = Absent THEN current_time ELSE stored.tat
        new_tat == Max(tat, current_time) + GCRAEmissionInterval * weight
        allow_at == new_tat - GCRABurstAllowance
        time_since_tat == current_time - tat
    IN  IF current_time >= allow_at
        THEN [tat |-> [tat |-> new_tat],
              allowed |-> TRUE,
              limit |-> GCRALimit,
              remaining |-> IF time_since_tat > 0
                            THEN Max(0, Min(GCRABurst, time_since_tat \div GCRAEmissionInterval))
                            ELSE 0,
              retry_after |-> 0,
              violated |-> FALSE,
              meta_tat |-> new_tat]
        ELSE [tat |-> stored,
              allowed |-> FALSE,
              limit |-> GCRALimit,
              remaining |-> 0,
              retry_after |-> allow_at - current_time,
              violated |-> TRUE,
              meta_tat |-> tat]

GCRAAllow(key, weight) ==
    IF weight <= 0
    THEN /\ res' = [op |-> "gcra_allow", key |-> key, weight |-> weight, error |-> TRUE]
         /\ UNCHANGED <<now, gcraVars, gcraOthers>>
    ELSE LET d == GCRADecide(gcra_tats[key], weight, GCRATime(now))
         IN  /\ gcra_tats' = [gcra_tats EXCEPT ![key] = d.tat]
             /\ res' = [op |-> "gcra_allow", key |-> key, weight |-> weight, error |-> FALSE,
                        t |-> now, pre |-> gcra_tats[key],
                        prev_admit |-> gcra_last_admit[key], allowed |-> d.allowed,
                        limit |-> d.limit, remaining |-> d.remaining,
                        retry_after |-> d.retry_after, violated |-> d.violated]
             /\ gcra_burst' = [gcra_burst EXCEPT ![key] =
                    IF weight # 1 THEN 0
                    ELSE IF ~d.allowed THEN @
                    ELSE IF gcra_tats[key] = Absent THEN 1
                    ELSE IF @ > 0 THEN @ + 1 ELSE 0]
             /\ gcra_last_admit' = [gcra_last_admit EXCEPT ![key] =
                    IF d.allowed THEN [t |-> now] ELSE @]
             /\ UNCHANGED <<now, gcraOthers>>

\* The remaining that check(key) reports: burst less int(time_until_tat /
\* emission_interval) while the theoretical arrival time is ahead.
GCRACheckRemaining(stored, current_time) ==
    LET tat == IF stored = Absent THEN current_time ELSE stored.tat
        time_until_tat == tat - current_time
        slots_used == time_until_tat \div GCRAEmissionInterval
    IN  IF current_time >= tat THEN GCRABurst ELSE Max(0, GCRABurst - slots_used)

GCRACheck(key) ==
    LET current_time == GCRATime(now)
        tat == IF gcra_tats[key] = Absent THEN current_time ELSE gcra_tats[key].tat
        time_until_tat == tat - current_time
        remaining == GCRACheckRemaining(gcra_tats[key], current_time)
    IN  /\ res' = [op |-> "gcra_check", key |-> key, t |-> now, limit |-> GCRALimit,
                   remaining |-> remaining,
                   retry_after |-> IF current_time < tat /\ remaining = 0
                                   THEN time_until_tat ELSE 0,
                   violated |-> (remaining = 0)]
        /\ UNCHANGED <<now, gcraVars, gcraOthers>>

GCRAReset(key) ==
    /\ gcra_tats' = [gcra_tats EXCEPT ![key] = Absent]
    /\ gcra_burst' = [gcra_burst EXCEPT ![key] = 0]
    /\ gcra_last_admit' = [gcra_last_admit EXCEPT ![key] = Absent]
    /\ res' = [op |-> "gcra_reset", key |-> key]
    /\ UNCHANGED <<now, gcraOthers>>

GCRAResetAll ==
    /\ gcra_tats' = [k \in Keys |-> Absent]
    /\ gcra_burst' = [k \in Keys |-> 0]
    /\ gcra_last_admit' = [k \in Keys |-> Absent]
    /\ res' = [op |-> "gcra_reset_all"]
    /\ UNCHANGED <<now, gcraOthers>>

GCRAInit ==
    /\ gcra_tats = [k \in Keys |-> Absent]
    /\ gcra_burst = [k \in Keys |-> 0]
    /\ gcra_last_admit = [k \in Keys |-> Absent]

(***************************************************************************)
(* Hierarchical token bucket (HierarchicalTokenBucket).  The three limits  *)
(* are chosen at construction; a token is HTBDen units and every level is  *)
(* refilled by HTBRefillNum units per tick.                                *)
(***************************************************************************)
HTBMaxLimit == 2
HTBMaxTime == 1
HTBRefillNum == 1
HTBDen == 1

HTBWeights == 0 .. HTBMaxLimit

HTBTenants == {"acme", "globex"}

NoTenant == ""

\* _refill_bucket
HTBRefillBucket(bucket, capacity, current_time) ==
    LET time_passed == current_time - bucket.last
    IN  IF time_passed > 0
        THEN Min(capacity * HTBDen, bucket.tokens + time_passed * HTBRefillNum)
        ELSE bucket.tokens

HTBFullBucket(capacity, current_time) ==
    [tokens |-> capacity * HTBDen, last |-> current_time]

\* _create_denial_response: retry_after is kept as its numerator, the units
\* missing to ONE token; the wait is retry_after / HTBRefillNum ticks.  The
\* level string "global", "tenant:<tenant>" or "user:<key>" is kept as the
\* pair (level, name).
HTBCreateDenialResponse(level, name, limit, remaining) ==
    [allowed |-> FALSE,
     limit |-> limit,
     remaining |-> remaining \div HTBDen,
     retry_after |-> 1 * HTBDen - remaining,
     violated |-> TRUE,
     level |-> level,
     name |-> name]

\* The debit of one level on admission.
HTBDebitNothing(tokens, weight) == tokens

HTBDebit(tokens, weight) == tokens - weight * HTBDen

\* allow(key, weight, tenant): the buckets it leaves and the decision record.
HTBDecide(key, weight, tenant, current_time) ==
    LET global_tokens == HTBRefillBucket(htb_global_bucket, htb_limits.global, current_time)
        has_tenant == tenant # NoTenant
        tenant_bucket == IF has_tenant /\ htb_tenant_buckets[tenant] = Absent
                         THEN HTBFullBucket(htb_limits.tenant, current_time)
                         ELSE IF has_tenant THEN htb_tenant_buckets[tenant] ELSE Absent
        tenant_tokens == IF has_tenant
                         THEN HTBRefillBucket(tenant_bucket, htb_limits.tenant, current_time)
                         ELSE 0
        user_bucket == IF htb_user_buckets[key] = Absent
                       THEN HTBFullBucket(htb_limits.user, current_time)
                       ELSE htb_user_buckets[key]
        user_tokens == HTBRefillBucket(user_bucket, htb_limits.user, current_time)
        tenants_seen == IF has_tenant
                        THEN [htb_tenant_buckets EXCEPT ![tenant] = tenant_bucket]
                        ELSE htb_tenant_buckets
        users_seen == [htb_user_buckets EXCEPT ![key] = user_bucket]
    IN  IF global_tokens < weight * HTBDen
        THEN [global |-> htb_global_bucket,
              tenants |-> htb_tenant_buckets,
              users |-> htb_user_buckets,
              state |-> HTBCreateDenialResponse("global", "", htb_limits.global,
                                                global_tokens)]
        ELSE IF has_tenant /\ tenant_tokens < weight * HTBDen
        THEN [global |-> htb_global_bucket,
              tenants |-> tenants_seen,
              users |-> htb_user_buckets,
              state |-> HTBCreateDenialResponse("tenant", tenant, htb_limits.tenant,
                                                tenant_tokens)]
        ELSE IF user_tokens < weight * HTBDen
        THEN [global |-> htb_global_bucket,
              tenants |-> tenants_seen,
              users |-> users_seen,
              state |-> HTBCreateDenialResponse("user", key, htb_limits.user,
                                                user_tokens)]
        ELSE [global |-> [tokens |-> HTBDebit(global_tokens, weight),
                          last |-> current_time],
              tenants |-> IF has_tenant
                          THEN [htb_tenant_buckets EXCEPT ![tenant] =
                                   [tokens |-> HTBDebit(tenant_tokens, weight),
                                    last |-> current_time]]
                          ELSE htb_tenant_buckets,
              users |-> [htb_user_buckets EXCEPT ![key] =
                            [tokens |-> HTBDebit(user_tokens, weight),
                             last |-> current_time]],
              state |-> [allowed |-> TRUE,
                         limit |-> htb_limits.user,
                         remaining |-> HTBDebit(user_tokens, weight) \div HTBDen,
                         retry_after |-> 0,
                         violated |-> FALSE,
                         level |-> "none",
                         name |-> ""]]

HTBAllow(key, weight, tenant) ==
    IF weight <= 0
    THEN /\ res' = [op |-> "htb_allow", key |-> key, weight |-> weight, error |-> TRUE]
         /\ UNCHANGED <<now, htbVars, htbOthers>>
    ELSE LET d == HTBDecide(key, weight, tenant, now)
         IN  /\ htb_global_bucket' = d.global
             /\ htb_tenant_buckets' = d.tenants
             /\ htb_user_buckets' = d.users
             /\ res' = [op |-> "htb_allow", key |-> key, weight |-> weight, error |-> FALSE,
                        tenant |-> tenant, t |-> now,
                        allowed |-> d.state.allowed, limit |-> d.state.limit,
                        remaining |-> d.state.remaining,
                        retry_after |-> d.state.retry_after,
                        violated |-> d.state.violated,
                        level |-> d.state.level, name |-> d.state.name]
             /\ htb_admitted' =
                    IF ~htb_admitted.unit_run \/ weight # 1
                    THEN [unit_run |-> FALSE, n |-> 0]
                    ELSE [unit_run |-> TRUE,
                          n |-> htb_admitted.n + (IF d.state.allowed THEN 1 ELSE 0)]
             /\ UNCHANGED <<now, htb_limits, htbOthers>>

\* check(key): a first look at a key stores its full user bucket.
HTBCheck(key) ==
    LET user_bucket == IF htb_user_buckets[key] = Absent
                       THEN HTBFullBucket(htb_limits.user, now)
                       ELSE htb_user_buckets[key]
        user_tokens == HTBRefillBucket(user_bucket, htb_limits.user, now)
        global_tokens == HTBRefillBucket(htb_global_bucket, htb_limits.global, now)
    IN  /\ htb_user_buckets' = [htb_user_buckets EXCEPT ![key] = user_bucket]
        /\ res' = [op |-> "htb_check", key |-> key, t |-> now, limit |-> htb_limits.user,
                   remaining |-> user_tokens \div HTBDen, retry_after |-> 0,
                   violated |-> FALSE, global_remaining |-> global_tokens \div HTBDen]
        /\ UNCHANGED <<now, htb_limits, htb_global_bucket, htb_tenant_buckets,
                       htb_admitted, htbOthers>>

\* reset(key): only the user bucket is dropped.
HTBReset(key) ==
    /\ htb_user_buckets' = [htb_user_buckets EXCEPT ![key] = Absent]
    /\ htb_admitted' = [unit_run |-> FALSE, n |-> 0]
    /\ res' = [op |-> "htb_reset", key |-> key]
    /\ UNCHANGED <<now, htb_limits, htb_global_bucket, htb_tenant_buckets, htbOthers>>

\* reset(None)
HTBResetAll ==
    /\ htb_global_bucket' = HTBFullBucket(htb_limits.global, now)
    /\ htb_tenant_buckets' = [t \in HTBTenants |-> Absent]
    /\ htb_user_buckets' = [k \in Keys |-> Absent]
    /\ htb_admitted' = [unit_run |-> FALSE, n |-> 0]
    /\ res' = [op |-> "htb_reset_all"]
    /\ UNCHANGED <<now, htb_limits, htbOthers>>

\* The limiter as constructed at time 0, for any three positive limits.
HTBConfigs ==
    [global : 1 .. HTBMaxLimit, tenant : 1 .. HTBMaxLimit, user : 1 .. HTBMaxLimit]

HTBInit(configs) ==
    /\ htb_limits \in configs
    /\ htb_global_bucket = HTBFullBucket(htb_limits.global, 0)
    /\ htb_tenant_buckets = [t \in HTBTenants |-> Absent]
    /\ htb_user_buckets = [k \in Keys |-> Absent]
    /\ htb_admitted = [unit_run |-> TRUE, n |-> 0]

(***************************************************************************)
(* Fair queuing (FairQueueingAlgorithm), constructed with                  *)
(* weights = {"premium": FQPremium} and max_per_key either None or         *)
(* FQMaxPerKey.                                                            *)
(***************************************************************************)
FQGlobal == 4
FQWindow == 2
FQMaxPerKey == 2
FQPremium == 2
FQMaxWeight == 2
FQFairSlack == 1

FQWeights == 0 .. FQMaxWeight

FQClasses == {"none", "premium"}

\* self.weights.get(weight_class or "default", 1.0)
FQWeightMultiplier(weight_class) == IF weight_class = "premium" THEN FQPremium ELSE 1

\* _cleanup_old_requests: the list it returns (and stores, when the key exists).
FQCleanupOldRequests(requests, current_time) ==
    IF requests = Absent THEN << >>
    ELSE SelectSeq(requests.ts, LAMBDA ts : ts > current_time - FQWindow)

FQStoreCleaned(requests, current_time) ==
    IF requests = Absent THEN Absent
    ELSE [ts |-> FQCleanupOldRequests(requests, current_time)]

RECURSIVE SumOver(_, _)
SumOver(f, S) ==
    IF S = {} THEN 0
    ELSE LET x == CHOOSE y \in S : TRUE IN f[x] + SumOver(f, S \ {x})

\* The fair-share test of allow: FALSE when the usage has reached the share
\* global_limit / max(1, num_active_keys) * weight_multiplier.
FQWithinShare(used, weight, num_active_keys, weight_multiplier) ==
    ~(used * Max(1, num_active_keys) >= FQGlobal * weight_multiplier)

\* The body of allow(key, weight, weight_class) under the lock, for weight > 0.
\* The share is a fraction: limit and remaining are its integer parts.
FQDecide(key, weight, weight_class, current_time) ==
    LET cleaned == [k \in Keys |-> FQStoreCleaned(fq_key_counts[k], current_time)]
        requests == FQCleanupOldRequests(fq_key_counts[key], current_time)
        total_requests == SumOver([k \in Keys |->
                              Len(FQCleanupOldRequests(fq_key_counts[k], current_time))], Keys)
        num_active_keys == Cardinality({k \in Keys : cleaned[k] # Absent /\ cleaned[k].ts # << >>})
        weight_multiplier == FQWeightMultiplier(weight_class)
        share_num == FQGlobal * weight_multiplier
        share_den == Max(1, num_active_keys)
        denial(reason) == [counts |-> cleaned, allowed |-> FALSE, limit |-> FQGlobal,
                           remaining |-> 0, retry_after |-> FQWindow, violated |-> TRUE,
                           reason |-> reason]
    IN  IF total_requests >= FQGlobal THEN denial("global_limit")
        ELSE IF fq_max_per_key # 0 /\ Len(requests) >= fq_max_per_key
        THEN denial("per_key_limit")
        ELSE IF ~FQWithinShare(Len(requests), weight, num_active_keys, weight_multiplier)
        THEN denial("fair_share_exceeded")
        ELSE [counts |-> [cleaned EXCEPT ![key] = [ts |-> requests \o Repeat(current_time, weight)]],
              allowed |-> TRUE,
              limit |-> share_num \div share_den,
              remaining |-> Max(0, IF share_num >= (Len(requests) + weight) * share_den
                                   THEN (share_num - (Len(requests) + weight) * share_den)
                                            \div share_den
                                   ELSE 0),
              retry_after |-> 0,
              violated |-> FALSE,
              reason |-> "none"]

\* The in-window usage a decision is made on, counted from the stored logs.
FQUsed(counts, key, current_time) ==
    IF counts[key] = Absent THEN 0
    ELSE Cardinality({i \in 1 .. Len(counts[key].ts) :
                         counts[key].ts[i] > current_time - FQWindow})

FQActive(counts, current_time) ==
    Cardinality({k \in Keys : FQUsed(counts, k, current_time) > 0})

FQSaturationOff ==
    [on |-> FALSE, admitted |-> [k \in Keys |-> 0], denied |-> [k \in Keys |-> FALSE]]

FQAllow(key, weight, weight_class) ==
    IF weight <= 0
    THEN /\ res' = [op |-> "fq_allow", key |-> key, weight |-> weight, error |-> TRUE]
         /\ UNCHANGED <<now, fqVars, fqOthers>>
    ELSE LET d == FQDecide(key, weight, weight_class, now)
         IN  /\ fq_key_counts' = d.counts
             /\ res' = [op |-> "fq_allow", key |-> key, weight |-> weight, error |-> FALSE,
                        weight_class |-> weight_class, t |-> now,
                        used |-> FQUsed(fq_key_counts, key, now),
                        total |-> SumOver([k \in Keys |-> FQUsed(fq_key_counts, k, now)], Keys),
                        active |-> FQActive(fq_key_counts, now),
                        allowed |-> d.allowed, limit |-> d.limit,
                        remaining |-> d.remaining, retry_after |-> d.retry_after,
                        violated |-> d.violated, reason |-> d.reason]
             /\ fq_saturation' =
                    IF ~fq_saturation.on \/ weight # 1 \/ weight_class # "none"
                    THEN FQSaturationOff
                    ELSE IF d.allowed
                    THEN [fq_saturation EXCEPT !.admitted[key] = @ + 1]
                    ELSE [fq_saturation EXCEPT !.denied[key] = TRUE]
             /\ UNCHANGED <<now, fq_max_per_key, fqOthers>>

\* check(key): prunes the key's own log.
FQCheck(key) ==
    LET requests == FQCleanupOldRequests(fq_key_counts[key], now)
        counts == [fq_key_counts EXCEPT ![key] = FQStoreCleaned(@, now)]
        num_active_keys == Cardinality({k \in Keys : counts[k] # Absent /\ counts[k].ts # << >>})
        share_den == Max(1, num_active_keys)
        positive == FQGlobal > Len(requests) * share_den
        remaining == IF positive
                     THEN (FQGlobal - Len(requests) * share_den) \div share_den ELSE 0
    IN  /\ fq_key_counts' = counts
        /\ res' = [op |-> "fq_check", key |-> key, t |-> now,
                   limit |-> FQGlobal \div share_den,
                   remaining |-> remaining, retry_after |-> 0,
                   violated |-> (remaining <= 0)]
        /\ UNCHANGED <<now, fq_max_per_key, fq_saturation, fqOthers>>

FQReset(key) ==
    /\ fq_key_counts' = [fq_key_counts EXCEPT ![key] = Absent]
    /\ fq_saturation' = FQSaturationOff
    /\ res' = [op |-> "fq_reset", key |-> key]
    /\ UNCHANGED <<now, fq_max_per_key, fqOthers>>

FQResetAll ==
    /\ fq_key_counts' = [k \in Keys |-> Absent]
    /\ fq_saturation' = FQSaturationOff
    /\ res' = [op |-> "fq_reset_all"]
    /\ UNCHANGED <<now, fq_max_per_key, fqOthers>>

FQInit(max_per_key_options) ==
    /\ fq_max_per_key \in max_per_key_options
    /\ fq_key_counts = [k \in Keys |-> Absent]
    /\ fq_saturation = [on |-> TRUE, admitted |-> [k \in Keys |-> 0],
                        denied |-> [k \in Keys |-> FALSE]]

(***************************************************************************)
(* In-process backend (MemoryBackend), constructed at time 0 with          *)
(* ttl_seconds either None (0 here) or MemTTL.                             *)
(***************************************************************************)
MemTTL == 1
MemCleanupInterval == 2
MemMaxLimit == 2
MemNewRecordReset == 60
MemMaxTime == 3

MemWeights == 0 .. (MemMaxLimit + 1)

\* _cleanup_expired: the store and _last_cleanup it leaves.
MemCleanupExpired(store, last_cleanup, current_time) ==
    IF mem_ttl_seconds = 0 \/ current_time - last_cleanup < MemCleanupInterval
    THEN [store |-> store, last_cleanup |-> last_cleanup]
    ELSE [store |-> [k \in Keys |->
                        IF store[k] # Absent
                            /\ current_time - store[k].timestamp > mem_ttl_seconds
                        THEN Absent ELSE store[k]],
          last_cleanup |-> current_time]

\* _get_data without its ttl test: the stored record, whatever its age.
MemGetDataAnyAge(store, key, current_time) == store[key]

\* _get_data: the record it returns (Absent for None); an expired one is deleted.
MemGetData(store, key, current_time) ==
    IF store[key] = Absent THEN Absent
    ELSE IF mem_ttl_seconds # 0 /\ current_time - store[key].timestamp > mem_ttl_seconds
    THEN Absent
    ELSE store[key]

\* The record consume(key, weight) stores for a key it finds.
MemConsumeFound(data, weight, current_time) ==
    [data EXCEPT !.remaining = Max(0, data.remaining - weight),
                 !.timestamp = current_time]

\* The record consume(key, weight) stores for a key it does not find.
MemConsumeNew(weight, current_time) ==
    [limit |-> weight, remaining |-> 0, reset_at |-> current_time + MemNewRecordReset,
     retry_after |-> 0, violated |-> FALSE, timestamp |-> current_time]

MemConsume(key, weight) ==
    IF weight <= 0
    THEN /\ res' = [op |-> "mem_consume", key |-> key, weight |-> weight, error |-> TRUE]
         /\ UNCHANGED <<now, memVars, memOthers>>
    ELSE LET c == MemCleanupExpired(mem_store, mem_last_cleanup, now)
             found == MemGetData(c.store, key, now)
             data == IF found = Absent THEN MemConsumeNew(weight, now)
                     ELSE MemConsumeFound(found, weight, now)
         IN  /\ mem_store' = [c.store EXCEPT ![key] = data]
             /\ mem_last_cleanup' = c.last_cleanup
             /\ res' = [op |-> "mem_consume", key |-> key, weight |-> weight,
                        error |-> FALSE, t |-> now, pre |-> found,
                        limit |-> data.limit, remaining |-> data.remaining,
                        retry_after |-> data.retry_after, violated |-> data.violated]
             /\ UNCHANGED <<now, mem_ttl_seconds, memOthers>>

\* check(key) and peek(key)
MemCheck(key) ==
    LET c == MemCleanupExpired(mem_store, mem_last_cleanup, now)
        found == MemGetData(c.store, key, now)
    IN  /\ mem_store' = [c.store EXCEPT ![key] = found]
        /\ mem_last_cleanup' = c.last_cleanup
        /\ res' = IF found = Absent
                  THEN [op |-> "mem_check", key |-> key, t |-> now, found |-> FALSE,
                        stored |-> mem_store[key] # Absent, limit |-> 0, remaining |-> 0, retry_after |-> 0,
                        violated |-> FALSE]
                  ELSE [op |-> "mem_check", key |-> key, t |-> now, found |-> TRUE,
                        stored |-> TRUE, limit |-> found.limit, remaining |-> found.remaining,
                        retry_after |-> found.retry_after, violated |-> found.violated]
        /\ UNCHANGED <<now, mem_ttl_seconds, memOthers>>

\* set_state(key, limit, remaining, reset_at), the way the tests seed a key.
MemSetState(key, limit, remaining) ==
    /\ mem_store' = [mem_store EXCEPT ![key] =
          [limit |-> limit, remaining |-> remaining, reset_at |-> now + MemNewRecordReset,
           retry_after |-> 0, violated |-> FALSE, timestamp |-> now]]
    /\ res' = [op |-> "mem_set_state", key |-> key]
    /\ UNCHANGED <<now, mem_ttl_seconds, mem_last_cleanup, memOthers>>

MemReset(key) ==
    /\ mem_store' = [mem_store EXCEPT ![key] = Absent]
    /\ res' = [op |-> "mem_reset", key |-> key]
    /\ UNCHANGED <<now, mem_ttl_seconds, mem_last_cleanup, memOthers>>

MemResetAll ==
    /\ mem_store' = [k \in Keys |-> Absent]
    /\ res' = [op |-> "mem_reset_all"]
    /\ UNCHANGED <<now, mem_ttl_seconds, mem_last_cleanup, memOthers>>

MemInit(ttl_options) ==
    /\ mem_ttl_seconds \in ttl_options
    /\ mem_store = [k \in Keys |-> Absent]
    /\ mem_last_cleanup = 0

(***************************************************************************)
(* RateLimiter: two instances constructed with algorithm "token_bucket"    *)
(* and one and the same MemoryBackend object as backend.  Each constructor *)
(* builds its own TokenBucketAlgorithm (_create_algorithm); no method of   *)
(* RateLimiter calls the backend.                                          *)
(***************************************************************************)
RLInstances == {"r1", "r2"}

RLKeys == {"a"}

\* allow(key, weight), with no hooks registered and raise_on_limit = False.
RLAllow(inst, key, weight) ==
    IF weight <= 0
    THEN /\ res' = [op |-> "rl_allow", inst |-> inst, key |-> key, weight |-> weight,
                    error |-> TRUE]
         /\ UNCHANGED <<now, rlVars, rlOthers>>
    ELSE LET d == TBDecide(rl_buckets[inst][key], weight, now)
         IN  /\ rl_buckets' = [rl_buckets EXCEPT ![inst][key] = d.bucket]
             /\ rl_admitted' = [rl_admitted EXCEPT ![key] =
                    IF d.allowed THEN @ + weight * TBDen ELSE @]
             /\ res' = [op |-> "rl_allow", inst |-> inst, key |-> key, weight |-> weight,
                        error |-> FALSE, t |-> now, returned |-> d.allowed,
                        backend_record |-> mem_store[key]]
             /\ UNCHANGED <<now, rlOthers>>

\* check(key) and peek(key)
RLCheck(inst, key) ==
    LET b == TBRefillTokens(rl_buckets[inst][key], now)
    IN  /\ res' = [op |-> "rl_check", inst |-> inst, key |-> key, t |-> now,
                   limit |-> TBCapacity, remaining |-> b.tokens \div TBDen,
                   retry_after |-> 0, violated |-> FALSE]
        /\ UNCHANGED <<now, rlVars, rlOthers>>

\* reset(key): the history counts the key's admissions anew.
RLReset(inst, key) ==
    /\ rl_buckets' = [rl_buckets EXCEPT ![inst][key] = Absent]
    /\ rl_admitted' = [rl_admitted EXCEPT ![key] = 0]
    /\ res' = [op |-> "rl_reset", inst |-> inst, key |-> key]
    /\ UNCHANGED <<now, rlOthers>>

RLInit ==
    /\ rl_buckets = [i \in RLInstances |-> [k \in RLKeys |-> Absent]]
    /\ rl_admitted = [k \in RLKeys |-> 0]

(***************************************************************************)
(* Leaky bucket (LeakyBucketAlgorithm).  The queue holds one entry per     *)
(* admitted unit; LBLeakNum / LBLeakDen entries leak per tick.             *)
(***************************************************************************)
LBCapacity == 2
LBLeakNum == 1
LBLeakDen == 2

LBWeights == 0 .. LBCapacity

LBQueue(bucket) == IF bucket = Absent THEN <<>> ELSE bucket.queue

\* _leak_bucket: int() of the leaked amount; last_leak moves whenever time passed.
LBLeakBucket(bucket, current_time) ==
    IF bucket = Absent THEN Absent
    ELSE LET time_passed == current_time - bucket.last_leak
             leaks == (time_passed * LBLeakNum) \div LBLeakDen
             n == Min(leaks, Len(bucket.queue)) IN
         IF time_passed > 0
         THEN [queue |-> SubSeq(bucket.queue, n + 1, Len(bucket.queue)),
               last_leak |-> current_time]
         ELSE bucket

\* A duration of items / leak_rate * leak_period, kept as a fraction of a tick.
LBDuration(items) == [num |-> items * LBLeakDen, den |-> LBLeakNum]

\* allow(key, weight) on one bucket: the decision, the state returned and
\* the bucket stored.
LBDecide(bucket, weight, current_time) ==
    LET leaked == LBLeakBucket(bucket, current_time)
        current_size == Len(LBQueue(leaked)) IN
    IF current_size + weight <= LBCapacity
    THEN [allowed |-> TRUE,
          state |-> [limit |-> LBCapacity,
                     remaining |-> LBCapacity - (current_size + weight),
                     retry_after |-> LBDuration(0), violated |-> FALSE],
          bucket |-> [queue |-> LBQueue(leaked) \o [i \in 1 .. weight |-> current_time],
                      last_leak |-> current_time]]
    ELSE [allowed |-> FALSE,
          state |-> [limit |-> LBCapacity, remaining |-> 0,
                     retry_after |-> LBDuration((current_size + weight) - LBCapacity),
                     violated |-> TRUE],
          bucket |-> leaked]

\* allow(key, weight) on a table that keeps one bucket for all keys.
LBAllowOneBucket(key, weight) ==
    /\ IF weight <= 0
       THEN /\ res' = [op |-> "lb_allow", key |-> key, weight |-> weight, error |-> TRUE]
            /\ UNCHANGED lbVars
       ELSE LET d == LBDecide(lb_buckets[key], weight, now)
                u == LBDecide(lb_unobserved[key], weight, now) IN
            /\ lb_buckets' = [k \in Keys |-> d.bucket]
            /\ lb_unobserved' = [k \in Keys |-> u.bucket]
            /\ res' = [op |-> "lb_allow", key |-> key, weight |-> weight, error |-> FALSE,
                       allowed |-> d.allowed, state |-> d.state,
                       unobserved |-> [allowed |-> u.allowed, state |-> u.state]]
    /\ UNCHANGED now
    /\ UNCHANGED lbOthers

LBAllow(key, weight) ==
    /\ IF weight <= 0
       THEN /\ res' = [op |-> "lb_allow", key |-> key, weight |-> weight, error |-> TRUE]
            /\ UNCHANGED lbVars
       ELSE LET d == LBDecide(lb_buckets[key], weight, now)
                u == LBDecide(lb_unobserved[key], weight, now) IN
            /\ lb_buckets' = [lb_buckets EXCEPT ![key] = d.bucket]
            /\ lb_unobserved' = [lb_unobserved EXCEPT ![key] = u.bucket]
            /\ res' = [op |-> "lb_allow", key |-> key, weight |-> weight, error |-> FALSE,
                       allowed |-> d.allowed, state |-> d.state,
                       unobserved |-> [allowed |-> u.allowed, state |-> u.state]]
    /\ UNCHANGED now
    /\ UNCHANGED lbOthers

LBCheck(key) ==
    /\ LET leaked == LBLeakBucket(lb_buckets[key], now)
           current_size == Len(LBQueue(leaked))
           remaining == Max(0, LBCapacity - current_size) IN
       /\ lb_buckets' = [lb_buckets EXCEPT ![key] = leaked]
       /\ res' = [op |-> "lb_check", key |-> key,
                  state |-> [limit |-> LBCapacity, remaining |-> remaining,
                             retry_after |-> IF remaining > 0 THEN LBDuration(0)
                                             ELSE LBDuration(current_size),
                             violated |-> remaining = 0]]
    /\ UNCHANGED <<now, lb_unobserved>>
    /\ UNCHANGED lbOthers

LBReset(key) ==
    /\ lb_buckets' = [lb_buckets EXCEPT ![key] = Absent]
    /\ lb_unobserved' = [lb_unobserved EXCEPT ![key] = Absent]
    /\ res' = [op |-> "lb_reset", key |-> key]
    /\ UNCHANGED now
    /\ UNCHANGED lbOthers

LBResetAll ==
    /\ lb_buckets' = [k \in Keys |-> Absent]
    /\ lb_unobserved' = [k \in Keys |-> Absent]
    /\ res' = [op |-> "lb_reset_all"]
    /\ UNCHANGED now
    /\ UNCHANGED lbOthers

LBInit ==
    /\ lb_buckets = [k \in Keys |-> Absent]
    /\ lb_unobserved = [k \in Keys |-> Absent]

(***************************************************************************)
(* Remote backends (PostgreSQLBackend, DynamoDBBackend).  A consume is a   *)
(* sequence of statements sent to the store; each statement is atomic and  *)
(* the statements of concurrent clients interleave.                        *)
(***************************************************************************)
RemoteMaxWeight == 2
RemoteMaxAdmitted == 3
RemoteDefaultLimit == 10000
RemoteResetSeconds == 3600
DDBTtlSeconds == 86400

RemoteKinds == {"postgresql", "dynamodb"}

RemoteClients == {"c1", "c2"}

RemoteKeys == {"a"}

RemoteWeights == 0 .. RemoteMaxWeight

RemoteIdle == [at |-> "idle"]

RemoteAdmittedState(limit, remaining) ==
    [limit |-> limit, remaining |-> remaining, retry_after |-> 0, violated |-> FALSE]

\* PostgreSQL: the UPDATE ... WHERE key AND reset_at > now AND remaining >= weight.
PGConsume(c, key, weight) ==
    /\ remote_kind = "postgresql"
    /\ remote_calls[c] = RemoteIdle
    /\ remote_admitted[key] < RemoteMaxAdmitted
    /\ LET row == remote_table[key] IN
       IF weight <= 0
       THEN /\ res' = [op |-> "consume", client |-> c, key |-> key, weight |-> weight,
                       error |-> TRUE]
            /\ UNCHANGED <<remote_table, remote_calls, remote_admitted>>
       ELSE IF row # Absent /\ row.expires > now /\ row.remaining >= weight
       THEN /\ remote_table' = [remote_table EXCEPT ![key].remaining = @ - weight]
            /\ remote_admitted' = [remote_admitted EXCEPT ![key] = @ + weight]
            /\ res' = [op |-> "consume", client |-> c, key |-> key, weight |-> weight,
                       error |-> FALSE,
                       state |-> RemoteAdmittedState(row.limit_value, row.remaining - weight)]
            /\ UNCHANGED remote_calls
       ELSE /\ remote_calls' = [remote_calls EXCEPT ![c] =
                                   [at |-> "select", key |-> key, weight |-> weight,
                                    expires |-> now + RemoteResetSeconds]]
            /\ res' = [op |-> "statement", client |-> c]
            /\ UNCHANGED <<remote_table, remote_admitted>>
    /\ UNCHANGED <<now, remote_kind>>
    /\ UNCHANGED remoteOthers

\* PostgreSQL: no row was updated; the SELECT that tells a denial from a new key.
PGConsumeSelect(c) ==
    /\ remote_kind = "postgresql"
    /\ remote_calls[c] # RemoteIdle
    /\ remote_calls[c].at = "select"
    /\ LET call == remote_calls[c]
           row == remote_table[call.key] IN
       IF row # Absent /\ row.expires > now
       THEN /\ remote_calls' = [remote_calls EXCEPT ![c] = RemoteIdle]
            /\ res' = [op |-> "consume", client |-> c, key |-> call.key,
                       weight |-> call.weight, error |-> FALSE,
                       state |-> [limit |-> row.limit_value, remaining |-> row.remaining,
                                  retry_after |-> Max(0, row.expires - now),
                                  violated |-> TRUE]]
       ELSE /\ remote_calls' = [remote_calls EXCEPT ![c].at = "insert"]
            /\ res' = [op |-> "statement", client |-> c]
    /\ UNCHANGED <<now, remote_kind, remote_table, remote_admitted>>
    /\ UNCHANGED remoteOthers

\* PostgreSQL: INSERT ... ON CONFLICT (key) DO NOTHING, then the admitted
\* state computed from the default limit.
PGConsumeInsert(c) ==
    /\ remote_kind = "postgresql"
    /\ remote_calls[c] # RemoteIdle
    /\ remote_calls[c].at = "insert"
    /\ LET call == remote_calls[c]
           remaining == RemoteDefaultLimit - call.weight IN
       /\ remote_table' =
              IF remote_table[call.key] = Absent
              THEN [remote_table EXCEPT ![call.key] =
                       [limit_value |-> RemoteDefaultLimit, remaining |-> remaining,
                        expires |-> call.expires]]
              ELSE remote_table
       /\ remote_admitted' = [remote_admitted EXCEPT ![call.key] = @ + call.weight]
       /\ remote_calls' = [remote_calls EXCEPT ![c] = RemoteIdle]
       /\ res' = [op |-> "consume", client |-> c, key |-> call.key, weight |-> call.weight,
                  error |-> FALSE,
                  state |-> RemoteAdmittedState(RemoteDefaultLimit, remaining)]
    /\ UNCHANGED <<now, remote_kind>>
    /\ UNCHANGED remoteOthers

\* DynamoDB: update_item with ConditionExpression remaining >= :weight AND #ttl > :now.
DDBConsume(c, key, weight) ==
    /\ remote_kind = "dynamodb"
    /\ remote_calls[c] = RemoteIdle
    /\ remote_admitted[key] < RemoteMaxAdmitted
    /\ LET row == remote_table[key] IN
       IF weight <= 0
       THEN /\ res' = [op |-> "consume", client |-> c, key |-> key, weight |-> weight,
                       error |-> TRUE]
            /\ UNCHANGED <<remote_table, remote_calls, remote_admitted>>
       ELSE IF row # Absent /\ row.remaining >= weight /\ row.expires > now
       THEN /\ remote_table' = [remote_table EXCEPT ![key].remaining = @ - weight]
            /\ remote_admitted' = [remote_admitted EXCEPT ![key] = @ + weight]
            /\ res' = [op |-> "consume", client |-> c, key |-> key, weight |-> weight,
                       error |-> FALSE,
                       state |-> RemoteAdmittedState(row.limit_value, row.remaining - weight)]
            /\ UNCHANGED remote_calls
       ELSE /\ remote_calls' = [remote_calls EXCEPT ![c] =
                                   [at |-> "check", key |-> key, weight |-> weight,
                                    expires |-> now + RemoteResetSeconds + DDBTtlSeconds]]
            /\ res' = [op |-> "statement", client |-> c]
            /\ UNCHANGED <<remote_table, remote_admitted>>
    /\ UNCHANGED <<now, remote_kind>>
    /\ UNCHANGED remoteOthers

\* DynamoDB: what check(key) reads: limit 0 for a missing or expired item.
DDBCheckState(row, current_time) ==
    IF row = Absent \/ (row.expires > 0 /\ row.expires < current_time)
    THEN [limit |-> 0, remaining |-> 0, retry_after |-> 0, violated |-> FALSE]
    ELSE [limit |-> row.limit_value, remaining |-> row.remaining,
          retry_after |-> IF row.remaining <= 0
                          THEN Max(0, row.expires - DDBTtlSeconds - current_time) ELSE 0,
          violated |-> row.remaining <= 0]

\* DynamoDB: the condition failed; self.check(key) tells a denial from a new key.
DDBConsumeCheck(c) ==
    /\ remote_kind = "dynamodb"
    /\ remote_calls[c] # RemoteIdle
    /\ remote_calls[c].at = "check"
    /\ LET call == remote_calls[c]
           state == DDBCheckState(remote_table[call.key], now) IN
       IF state.limit = 0
       THEN /\ remote_calls' = [remote_calls EXCEPT ![c].at = "put"]
            /\ res' = [op |-> "statement", client |-> c]
       ELSE /\ remote_calls' = [remote_calls EXCEPT ![c] = RemoteIdle]
            /\ res' = [op |-> "consume", client |-> c, key |-> call.key,
                       weight |-> call.weight, error |-> FALSE,
                       state |-> [limit |-> state.limit, remaining |-> state.remaining,
                                  retry_after |-> state.retry_after, violated |-> TRUE]]
    /\ UNCHANGED <<now, remote_kind, remote_table, remote_admitted>>
    /\ UNCHANGED remoteOthers

\* DynamoDB: put_item of a fresh item, whatever the table holds by now.
DDBConsumePut(c) ==
    /\ remote_kind = "dynamodb"
    /\ remote_calls[c] # RemoteIdle
    /\ remote_calls[c].at = "put"
    /\ LET call == remote_calls[c]
           remaining == RemoteDefaultLimit - call.weight IN
       /\ remote_table' = [remote_table EXCEPT ![call.key] =
                              [limit_value |-> RemoteDefaultLimit, remaining |-> remaining,
                               expires |-> call.expires]]
       /\ remote_admitted' = [remote_admitted EXCEPT ![call.key] = @ + call.weight]
       /\ remote_calls' = [remote_calls EXCEPT ![c] = RemoteIdle]
       /\ res' = [op |-> "consume", client |-> c, key |-> call.key, weight |-> call.weight,
                  error |-> FALSE,
                  state |-> RemoteAdmittedState(RemoteDefaultLimit, remaining)]
    /\ UNCHANGED <<now, remote_kind>>
    /\ UNCHANGED remoteOthers

\* MongoDB (MongoDBBackend) over the same store: a document per key under the
\* unique index on key, expiring MGResetTicks after the consume that inserted
\* it.  An expired document stays in the collection until the TTL monitor
\* removes it.  A consume that loses the insert calls itself again; the nested
\* calls end at MGRecursionLimit, where the interpreter raises RecursionError,
\* which every enclosing call hands on as BackendError.
MGResetTicks == 1
MGRecursionLimit == 5

MGWeights == 0 .. 1

\* consume(key, weight): the check of the weight; the statements follow.
MGConsume(c, key, weight) ==
    /\ remote_kind = "mongodb"
    /\ remote_calls[c] = RemoteIdle
    /\ remote_admitted[key] < RemoteMaxAdmitted
    /\ IF weight <= 0
       THEN /\ res' = [op |-> "consume", client |-> c, key |-> key, weight |-> weight,
                       error |-> TRUE]
            /\ UNCHANGED remote_calls
       ELSE /\ remote_calls' = [remote_calls EXCEPT ![c] =
                                   [at |-> "update", key |-> key, weight |-> weight,
                                    current_time |-> now, retries |-> 0]]
            /\ res' = [op |-> "statement", client |-> c]
    /\ UNCHANGED <<now, remote_kind, remote_table, remote_admitted>>
    /\ UNCHANGED remoteOthers

\* current_time = datetime.now() and find_one_and_update with the filter
\* key, reset_at > current_time, remaining >= weight.
MGFindOneAndUpdate(c) ==
    /\ remote_kind = "mongodb"
    /\ remote_calls[c] # RemoteIdle
    /\ remote_calls[c].at = "update"
    /\ LET call == remote_calls[c]
           row == remote_table[call.key] IN
       IF row # Absent /\ row.expires > now /\ row.remaining >= call.weight
       THEN /\ remote_table' = [remote_table EXCEPT ![call.key].remaining = @ - call.weight]
            /\ remote_admitted' = [remote_admitted EXCEPT ![call.key] = @ + call.weight]
            /\ remote_calls' = [remote_calls EXCEPT ![c] = RemoteIdle]
            /\ res' = [op |-> "consume", client |-> c, key |-> call.key,
                       weight |-> call.weight, error |-> FALSE, retries |-> call.retries,
                       state |-> RemoteAdmittedState(row.limit_value, row.remaining - call.weight)]
       ELSE /\ remote_calls' = [remote_calls EXCEPT ![c].at = "find",
                                                    ![c].current_time = now]
            /\ res' = [op |-> "statement", client |-> c]
            /\ UNCHANGED <<remote_table, remote_admitted>>
    /\ UNCHANGED <<now, remote_kind>>
    /\ UNCHANGED remoteOthers

\* find_one({"key": key}): a live document is a denial, none or an expired one
\* leads to the insert.
MGFindOne(c) ==
    /\ remote_kind = "mongodb"
    /\ remote_calls[c] # RemoteIdle
    /\ remote_calls[c].at = "find"
    /\ LET call == remote_calls[c]
           existing == remote_table[call.key] IN
       IF existing = Absent \/ existing.expires <= call.current_time
       THEN /\ remote_calls' = [remote_calls EXCEPT ![c].at = "insert"]
            /\ res' = [op |-> "statement", client |-> c]
       ELSE /\ remote_calls' = [remote_calls EXCEPT ![c] = RemoteIdle]
            /\ res' = [op |-> "consume", client |-> c, key |-> call.key,
                       weight |-> call.weight, error |-> FALSE, retries |-> call.retries,
                       state |-> [limit |-> existing.limit_value,
                                  remaining |-> existing.remaining,
                                  retry_after |-> Max(0, existing.expires - call.current_time),
                                  violated |-> TRUE]]
    /\ UNCHANGED <<now, remote_kind, remote_table, remote_admitted>>
    /\ UNCHANGED remoteOthers

\* Whether a consume that loses the insert can still call itself.
MGMayRetry(retries) == retries + 1 < MGRecursionLimit

\* insert_one(doc): DuplicateKeyError while the key has a document, whatever
\* its reset_at; then return self.consume(key, weight).
MGInsertOne(c) ==
    /\ remote_kind = "mongodb"
    /\ remote_calls[c] # RemoteIdle
    /\ remote_calls[c].at = "insert"
    /\ LET call == remote_calls[c]
           remaining == RemoteDefaultLimit - call.weight IN
       IF remote_table[call.key] = Absent
       THEN /\ remote_table' = [remote_table EXCEPT ![call.key] =
                                   [limit_value |-> RemoteDefaultLimit, remaining |-> remaining,
                                    expires |-> call.current_time + MGResetTicks]]
            /\ remote_admitted' = [remote_admitted EXCEPT ![call.key] = @ + call.weight]
            /\ remote_calls' = [remote_calls EXCEPT ![c] = RemoteIdle]
            /\ res' = [op |-> "consume", client |-> c, key |-> call.key,
                       weight |-> call.weight, error |-> FALSE, retries |-> call.retries,
                       state |-> RemoteAdmittedState(RemoteDefaultLimit, remaining)]
       ELSE IF MGMayRetry(call.retries)
       THEN /\ remote_calls' = [remote_calls EXCEPT ![c].at = "update",
                                                    ![c].retries = @ + 1]
            /\ res' = [op |-> "statement", client |-> c]
            /\ UNCHANGED <<remote_table, remote_admitted>>
       ELSE /\ remote_calls' = [remote_calls EXCEPT ![c] = RemoteIdle]
            /\ res' = [op |-> "consume", client |-> c, key |-> call.key,
                       weight |-> call.weight, error |-> TRUE, retries |-> call.retries]
            /\ UNCHANGED <<remote_table, remote_admitted>>
    /\ UNCHANGED <<now, remote_kind>>
    /\ UNCHANGED remoteOthers

\* The TTL monitor of the server removes a document whose reset_at has passed.
MGTtlMonitor(key) ==
    /\ remote_kind = "mongodb"
    /\ remote_table[key] # Absent
    /\ remote_table[key].expires <= now
    /\ remote_table' = [remote_table EXCEPT ![key] = Absent]
    /\ remote_admitted' = [remote_admitted EXCEPT ![key] = 0]
    /\ res' = [op |-> "ttl_monitor", key |-> key]
    /\ UNCHANGED <<now, remote_kind, remote_calls>>
    /\ UNCHANGED remoteOthers

\* check(key) of either backend: one read of the table.
RemoteCheck(key) ==
    /\ LET row == remote_table[key] IN
       res' = [op |-> "check", key |-> key,
               state |-> IF remote_kind = "dynamodb" THEN DDBCheckState(row, now)
                         ELSE IF row = Absent \/ ~(row.expires > now)
                         THEN [limit |-> 0, remaining |-> 0, retry_after |-> 0,
                               violated |-> FALSE]
                         ELSE [limit |-> row.limit_value, remaining |-> row.remaining,
                               retry_after |-> IF row.remaining <= 0
                                               THEN Max(0, row.expires - now) ELSE 0,
                               violated |-> row.remaining <= 0]]
    /\ UNCHANGED <<now, remoteVars>>
    /\ UNCHANGED remoteOthers

\* reset(key) of either backend: DELETE ... WHERE key / delete_item.
RemoteReset(key) ==
    /\ remote_table' = [remote_table EXCEPT ![key] = Absent]
    /\ remote_admitted' = [remote_admitted EXCEPT ![key] = 0]
    /\ res' = [op |-> "reset", key |-> key]
    /\ UNCHANGED <<now, remote_kind, remote_calls>>
    /\ UNCHANGED remoteOthers

RemoteInit(kinds) ==
    /\ remote_kind \in kinds
    /\ remote_table = [k \in RemoteKeys |-> Absent]
    /\ remote_calls = [c \in RemoteClients |-> RemoteIdle]
    /\ remote_admitted = [k \in RemoteKeys |-> 0]

(***************************************************************************)
(* The RateLimiter facade over the algorithm it was constructed with:      *)
(* allow, check and reset hand the call to self.algorithm.                 *)
(***************************************************************************)
Algorithms ==
    {"token_bucket", "sliding_window", "leaky_bucket", "fixed_window", "gcra", "fair_queueing"}

AlgWeights == TBWeights \cup SWWeights \cup LBWeights \cup FWWeights \cup GCRAWeights \cup FQWeights

AlgAllow(key, weight) ==
    \/ algorithm = "token_bucket" /\ weight \in TBWeights /\ TBAllow(key, weight)
    \/ algorithm = "sliding_window" /\ weight \in SWWeights /\ SWAllow(key, weight)
    \/ algorithm = "leaky_bucket" /\ weight \in LBWeights /\ LBAllow(key, weight)
    \/ algorithm = "fixed_window" /\ weight \in FWWeights /\ FWAllow(key, weight)
    \/ algorithm = "gcra" /\ weight \in GCRAWeights /\ GCRAAllow(key, weight)
    \/ algorithm = "fair_queueing" /\ weight \in FQWeights /\ FQAllow(key, weight, "none")

AlgCheck(key) ==
    \/ algorithm = "token_bucket" /\ TBCheck(key)
    \/ algorithm = "sliding_window" /\ SWCheck(key)
    \/ algorithm = "leaky_bucket" /\ LBCheck(key)
    \/ algorithm = "fixed_window" /\ FWCheck(key)
    \/ algorithm = "gcra" /\ GCRACheck(key)
    \/ algorithm = "fair_queueing" /\ FQCheck(key)

AlgReset(key) ==
    \/ algorithm = "token_bucket" /\ TBReset(key)
    \/ algorithm = "sliding_window" /\ SWReset(key)
    \/ algorithm = "leaky_bucket" /\ LBReset(key)
    \/ algorithm = "fixed_window" /\ FWReset(key)
    \/ algorithm = "gcra" /\ GCRAReset(key)
    \/ algorithm = "fair_queueing" /\ FQReset(key)

\* The (limit, remaining) that check(key) would report now.
AlgCheckState(key) ==
    CASE algorithm = "token_bucket" ->
           <<TBCapacity, TBRefillTokens(tb_buckets[key], now).tokens \div TBDen>>
      [] algorithm = "sliding_window" ->
           <<SWLimit, Max(0, SWLimit - Len(SWCleanupOldRequests(sw_requests[key], now)))>>
      [] algorithm = "leaky_bucket" ->
           <<LBCapacity,
             Max(0, LBCapacity - Len(LBQueue(LBLeakBucket(lb_buckets[key], now))))>>
      [] algorithm = "fixed_window" ->
           <<FWLimit, Max(0, FWLimit - FWGetCurrentWindow(fw_windows[key], now).count)>>
      [] algorithm = "gcra" ->
           LET current_time == GCRATime(now)
               tat == IF gcra_tats[key] = Absent THEN current_time ELSE gcra_tats[key].tat
           IN  <<GCRALimit,
                 IF current_time >= tat THEN GCRABurst
                 ELSE Max(0, GCRABurst - (tat - current_time) \div GCRAEmissionInterval)>>
      [] algorithm = "fair_queueing" ->
           LET requests == FQCleanupOldRequests(fq_key_counts[key], now)
               counts == [fq_key_counts EXCEPT ![key] = FQStoreCleaned(@, now)]
               share_den == Max(1, Cardinality({k \in Keys : counts[k] # Absent
                                                             /\ counts[k].ts # << >>}))
           IN  <<FQGlobal \div share_den,
                 IF FQGlobal > Len(requests) * share_den
                 THEN (FQGlobal - Len(requests) * share_den) \div share_den ELSE 0>>

\* Whether allow(key, weight) would be admitted now.
AlgAdmits(key, weight) ==
    CASE algorithm = "token_bucket" -> TBDecide(tb_buckets[key], weight, now).allowed
      [] algorithm = "sliding_window" -> SWDecide(sw_requests[key], weight, now).allowed
      [] algorithm = "leaky_bucket" -> LBDecide(lb_buckets[key], weight, now).allowed
      [] algorithm = "fixed_window" -> FWDecide(fw_windows[key], weight, now).allowed
      [] algorithm = "gcra" -> GCRADecide(gcra_tats[key], weight, GCRATime(now)).allowed
      [] algorithm = "fair_queueing" -> FQDecide(key, weight, "none", now).allowed

AlgInit(algorithms) == algorithm \in algorithms

(***************************************************************************)
(* Tiered limiter (PriorityRateLimiter).  Each limited tier owns a         *)
(* RateLimiter over a token bucket of capacity limit that refills limit    *)
(* tokens per window; tokens are counted in units of 1 / PLWindow token,   *)
(* so a tick of one second adds limit units.  The bucket of a key in a     *)
(* tier is stored under the name "<tier>:<key>", kept here as a pair.      *)
(***************************************************************************)
PLFreeLimit == 2
PLProLimit == 3
PLMaxTime == 1
PLWindow == 3600

PLKeys == {"u"}

NoTier == ""

PLDefaultTier == "free"

\* tiers = {"free": {"requests_per_hour": PLFreeLimit},
\*          "pro": {"requests_per_hour": PLProLimit},
\*          "enterprise": {"requests_per_hour": None}}
PLTiers == {"free", "pro", "enterprise"}

PLLimited == {"free", "pro"}

PLTierArgs == PLTiers \cup {NoTier, "gold"}

PLLimit(tier) == IF tier = "free" THEN PLFreeLimit ELSE PLProLimit

PLWeights == 0 .. PLProLimit

\* f"{tier}:{key}"; a name passed on as it came has no tier part.
PLTierKey(tier, key) == <<tier, key>>

PLRawKey(key) == <<NoTier, key>>

PLNames == {PLTierKey(t, k) : t \in PLLimited \cup {NoTier}, k \in PLKeys}

\* TokenBucketAlgorithm._refill_tokens of a tier's bucket.
PLRefillTokens(bucket, limit, current_time) ==
    IF bucket = Absent THEN limit * PLWindow
    ELSE IF current_time - bucket.last > 0
    THEN Min(limit * PLWindow, bucket.tokens + (current_time - bucket.last) * limit)
    ELSE bucket.tokens

\* TokenBucketAlgorithm.allow of a tier's bucket, for weight > 0.
PLDecide(bucket, limit, weight, current_time) ==
    LET tokens == PLRefillTokens(bucket, limit, current_time)
        admitted == tokens >= weight * PLWindow IN
    [allowed |-> admitted,
     bucket |-> [tokens |-> IF admitted THEN tokens - weight * PLWindow ELSE tokens,
                 last |-> current_time]]

\* TokenBucketAlgorithm.check of a tier's bucket: (limit, remaining).
PLCheckState(tier, name, current_time) ==
    [limit |-> PLLimit(tier),
     remaining |-> PLRefillTokens(pl_buckets[tier][name], PLLimit(tier), current_time)
                       \div PLWindow]

PLResolve(tier) == IF tier = NoTier THEN PLDefaultTier ELSE tier

PLAllow(key, tier_arg, weight) ==
    /\ LET tier == PLResolve(tier_arg)
           call == [op |-> "pl_allow", key |-> key, tier |-> tier_arg, weight |-> weight] IN
       IF tier \notin PLTiers
       THEN /\ res' = call @@ [error |-> "ConfigError"]
            /\ UNCHANGED pl_buckets
       ELSE IF tier \notin PLLimited
       THEN /\ res' = call @@ [error |-> "none", allowed |-> TRUE]
            /\ UNCHANGED pl_buckets
       ELSE IF weight <= 0
       THEN /\ res' = call @@ [error |-> "ValueError"]
            /\ UNCHANGED pl_buckets
       ELSE LET name == PLTierKey(tier, key)
                d == PLDecide(pl_buckets[tier][name], PLLimit(tier), weight, now) IN
            /\ pl_buckets' = [pl_buckets EXCEPT ![tier][name] = d.bucket]
            /\ res' = call @@ [error |-> "none", allowed |-> d.allowed]
    /\ UNCHANGED now
    /\ UNCHANGED plOthers

PLCheck(key, tier_arg) ==
    /\ LET tier == PLResolve(tier_arg)
           call == [op |-> "pl_check", key |-> key, tier |-> tier_arg] IN
       IF tier \notin PLTiers
       THEN res' = call @@ [error |-> "ConfigError"]
       ELSE IF tier \notin PLLimited
       THEN res' = call @@ [error |-> "none", unlimited |-> TRUE]
       ELSE res' = call @@ [error |-> "none", unlimited |-> FALSE,
                            state |-> PLCheckState(tier, PLTierKey(tier, key), now)]
    /\ UNCHANGED <<now, pl_buckets>>
    /\ UNCHANGED plOthers

\* reset(key, tier): with the tier omitted every limited tier's limiter is
\* handed the key as it came; with a tier, that tier's limiter is handed
\* the tier's name for the key.
PLResetBuckets(buckets, key, tier_arg) ==
    IF tier_arg = NoTier
    THEN [t \in PLLimited |-> [buckets[t] EXCEPT ![PLRawKey(key)] = Absent]]
    ELSE IF tier_arg \in PLLimited
    THEN [buckets EXCEPT ![tier_arg][PLTierKey(tier_arg, key)] = Absent]
    ELSE buckets

PLReset(key, tier_arg) ==
    /\ LET call == [op |-> "pl_reset", key |-> key, tier |-> tier_arg] IN
       IF tier_arg # NoTier /\ tier_arg \notin PLTiers
       THEN /\ res' = call @@ [error |-> "ConfigError"]
            /\ UNCHANGED pl_buckets
       ELSE /\ res' = call @@ [error |-> "none"]
            /\ pl_buckets' = PLResetBuckets(pl_buckets, key, tier_arg)
    /\ UNCHANGED now
    /\ UNCHANGED plOthers

\* upgrade_tier(key, from_tier, to_tier, preserve_state).  The result keeps
\* what check reported for the key on both tiers before the call.
PLUpgradeTier(key, from_tier, to_tier, preserve_state) ==
    /\ LET call == [op |-> "pl_upgrade", key |-> key, from_tier |-> from_tier,
                    to_tier |-> to_tier, preserve_state |-> preserve_state] IN
       IF from_tier \notin PLTiers \/ to_tier \notin PLTiers
       THEN /\ res' = call @@ [error |-> "ConfigError"]
            /\ UNCHANGED pl_buckets
       ELSE LET limited == from_tier \in PLLimited /\ to_tier \in PLLimited
                before == IF limited
                          THEN [from |-> PLCheckState(from_tier, PLTierKey(from_tier, key), now),
                                to |-> PLCheckState(to_tier, PLTierKey(to_tier, key), now)]
                          ELSE [unlimited |-> TRUE]
                consumed == IF limited
                            THEN (PLLimit(to_tier) * (before.from.limit - before.from.remaining))
                                     \div before.from.limit
                            ELSE 0
                new_name == PLTierKey(to_tier, key)
                carried == IF preserve_state /\ limited /\ consumed > 0
                           THEN [pl_buckets EXCEPT ![to_tier][new_name] =
                                    PLDecide(@, PLLimit(to_tier), consumed, now).bucket]
                           ELSE pl_buckets IN
            /\ pl_buckets' = PLResetBuckets(carried, key, from_tier)
            /\ res' = call @@ [error |-> "none", limited |-> limited, before |-> before,
                               consumed |-> consumed]
    /\ UNCHANGED now
    /\ UNCHANGED plOthers

PLInit == pl_buckets = [t \in PLLimited |-> [n \in PLNames |-> Absent]]

(***************************************************************************)
(* Quota pool (QuotaPool): one token bucket of capacity total_quota that   *)
(* refills total_quota tokens per window, shared by the pool's members.    *)
(* Tokens are counted in units of 1 / QPWindow token, so a tick adds       *)
(* QPTotal units.                                                          *)
(***************************************************************************)
QPTotal == 4
QPWindow == 2
QPMaxPerMember == 2
QPMaxWeight == 3

QPMembers == {"alice", "bob"}

QPWeights == 0 .. QPMaxWeight

\* QuotaPool(pool_id, total_quota, window): fair_share=True, max_per_member=None,
\* rollover=False, rollover_percent=0.5 (kept in hundredths).
QPDefaultOptions ==
    [fair_share |-> TRUE, max_per_member |-> 0, rollover |-> FALSE, rollover_percent |-> 50]

QPOptions ==
    [fair_share : BOOLEAN, max_per_member : {0, QPMaxPerMember},
     rollover : {FALSE}, rollover_percent : {50}]

\* Pools constructed with rollover=True; rollover_percent is clamped to [0, 1]
\* by the constructor.
QPRolloverPercents == {0, 50, 100}

QPRolloverOptions ==
    [fair_share : {FALSE}, max_per_member : {0},
     rollover : {TRUE}, rollover_percent : QPRolloverPercents]

\* TokenBucketAlgorithm._refill_tokens of the pool's bucket.
QPRefillTokens(bucket, current_time) ==
    IF bucket = Absent THEN QPTotal * QPWindow
    ELSE IF current_time - bucket.last > 0
    THEN Min(QPTotal * QPWindow, bucket.tokens + (current_time - bucket.last) * QPTotal)
    ELSE bucket.tokens

\* What the pool limiter's check reports: remaining = int(tokens).
QPRemaining(bucket, current_time) == QPRefillTokens(bucket, current_time) \div QPWindow

QPUsage(usage, member_id) == IF usage[member_id] = Absent THEN 0 ELSE usage[member_id].n

\* _check_fair_share: (member_usage + weight) <= fair_share + tolerance, with
\* fair_share = total_used / num_members and tolerance = fair_share * 0.2.
QPCheckFairShare(bucket, usage, member_id, weight, current_time) ==
    LET total_used == QPTotal - QPRemaining(bucket, current_time)
        members == Cardinality({m \in QPMembers : usage[m] # Absent})
        num_members == IF members = 0 THEN 1 ELSE members IN
    \/ total_used = 0
    \/ 5 * (QPUsage(usage, member_id) + weight) * num_members <= 6 * total_used

\* The max_per_member test of consume, made with the looser comparison
\* current_usage > max_per_member.
QPOverMaxLoose(max_per_member, current_usage, weight) ==
    max_per_member # 0 /\ current_usage > max_per_member

\* The max_per_member test of consume: TRUE when the request is refused.
QPOverMax(max_per_member, current_usage, weight) ==
    max_per_member # 0 /\ current_usage + weight > max_per_member

QPConsume(member_id, weight, force) ==
    /\ LET call == [op |-> "qp_consume", member_id |-> member_id, weight |-> weight,
                    force |-> force, tokens |-> QPRefillTokens(qp_bucket, now),
                    usage |-> QPUsage(qp_member_usage, member_id)]
           tokens == QPRefillTokens(qp_bucket, now) IN
       IF qp_options.fair_share /\ ~force
          /\ ~QPCheckFairShare(qp_bucket, qp_member_usage, member_id, weight, now)
       THEN /\ res' = call @@ [error |-> FALSE, allowed |-> FALSE, reason |-> "fair_share"]
            /\ UNCHANGED <<qp_bucket, qp_member_usage, qp_forced, qp_rollover_quota>>
       ELSE IF ~force /\ QPOverMax(qp_options.max_per_member,
                                   QPUsage(qp_member_usage, member_id), weight)
       THEN /\ res' = call @@ [error |-> FALSE, allowed |-> FALSE,
                               reason |-> "max_per_member"]
            /\ UNCHANGED <<qp_bucket, qp_member_usage, qp_forced, qp_rollover_quota>>
       ELSE IF weight <= 0
       THEN /\ res' = call @@ [error |-> TRUE]
            /\ UNCHANGED <<qp_bucket, qp_member_usage, qp_forced, qp_rollover_quota>>
       ELSE IF tokens >= weight * QPWindow
       THEN /\ qp_bucket' = [tokens |-> tokens - weight * QPWindow, last |-> now]
            /\ qp_member_usage' = [qp_member_usage EXCEPT ![member_id] =
                                      [n |-> QPUsage(qp_member_usage, member_id) + weight]]
            /\ qp_forced' = (qp_forced \/ force)
            /\ res' = call @@ [error |-> FALSE, allowed |-> TRUE, reason |-> "none"]
            /\ UNCHANGED qp_rollover_quota
       ELSE /\ qp_bucket' = [tokens |-> tokens, last |-> now]
            /\ res' = call @@ [error |-> FALSE, allowed |-> FALSE, reason |-> "pool"]
            /\ UNCHANGED <<qp_member_usage, qp_forced, qp_rollover_quota>>
    /\ UNCHANGED <<now, qp_options>>
    /\ UNCHANGED qpOthers

QPGetStats ==
    /\ res' = [op |-> "qp_get_stats", total |-> QPTotal,
               used |-> QPTotal - QPRemaining(qp_bucket, now),
               remaining |-> QPRemaining(qp_bucket, now),
               members |-> Cardinality({m \in QPMembers : qp_member_usage[m] # Absent}),
               member_usage |-> qp_member_usage,
               rollover_quota |-> qp_rollover_quota]
    /\ UNCHANGED <<now, qpVars>>
    /\ UNCHANGED qpOthers

\* _handle_rollover: the amount reset() records when rollover is enabled.
QPHandleRollover(options, bucket, rollover_quota, current_time) ==
    LET unused == QPRemaining(bucket, current_time) IN
    IF options.rollover /\ unused > 0
    THEN (unused * options.rollover_percent) \div 100
    ELSE rollover_quota

QPReset ==
    /\ qp_rollover_quota' = QPHandleRollover(qp_options, qp_bucket, qp_rollover_quota, now)
    /\ qp_bucket' = Absent
    /\ qp_member_usage' = [m \in QPMembers |-> Absent]
    /\ qp_forced' = FALSE
    /\ res' = [op |-> "qp_reset"]
    /\ UNCHANGED <<now, qp_options>>
    /\ UNCHANGED qpOthers

QPRemoveMember(member_id) ==
    /\ qp_member_usage' = [qp_member_usage EXCEPT ![member_id] = Absent]
    /\ res' = [op |-> "qp_remove_member", member_id |-> member_id]
    /\ UNCHANGED <<now, qp_options, qp_bucket, qp_forced, qp_rollover_quota>>
    /\ UNCHANGED qpOthers

QPInit(options) ==
    /\ qp_options \in options
    /\ qp_bucket = Absent
    /\ qp_member_usage = [m \in QPMembers |-> Absent]
    /\ qp_forced = FALSE
    /\ qp_rollover_quota = 0

(***************************************************************************)
(* AdaptiveRateLimiter (ratelink/adaptive_limiter.py), constructed with    *)
(* the default thresholds and factors, algorithm="token_bucket", one key.  *)
(* The two sample deques are kept as counts: the error rate and the        *)
(* average latency are functions of the counts, and the recording calls    *)
(* stop at ALMaxSamples, far below window_size, so no sample is evicted;   *)
(* at most ALMaxUnmeasured of them come without a latency.  Latencies are  *)
(* whole seconds.  The readings of psutil are inputs of the evaluation.     *)
(***************************************************************************)
ALSmallBase == 2
ALLargeBase == 20
ALCheckInterval == 2
ALMaxTime == 4
ALMaxSamples == 10
ALMaxErrors == 2
ALMaxSlow == 2
ALMaxUnmeasured == 1

\* the defaults of __init__ and the literals of _maybe_adapt
ALWindowSize == 100
ALMinSamples == 10
ALFloorDen == 10
ALErrorThresholdDen == 10
ALLatencyThreshold == 1
ALAdaptationDen == 2
ALRecoveryNum == 11
ALRecoveryDen == 10
ALWindow == 4
ALFastLatency == 0
ALSlowLatency == 8

ALBaseLimits == {ALSmallBase, ALLargeBase}
ALKeys == {"k"}
ALWeights == {0, ALLargeBase}
ALReadings == {"over", "under", "raises"}
NoLatency == [none |-> TRUE]
ALLatencyArgs == {NoLatency, [t |-> ALFastLatency], [t |-> ALSlowLatency]}

\* deque.append on _request_results
ALAppendResult(results, ok) ==
    [n |-> results.n + 1, errors |-> results.errors + (IF ok THEN 0 ELSE 1)]

\* record_success / record_error: if latency is not None, _request_latencies.append
ALAppendLatency(latencies, latency) ==
    IF latency = NoLatency THEN latencies
    ELSE [n |-> latencies.n + 1, sum |-> latencies.sum + latency.t]

\* error_rate > error_threshold (0.10)
ALErrorRateHigh(results) ==
    results.n >= ALMinSamples /\ ALErrorThresholdDen * results.errors > results.n

\* error_rate < error_threshold / 2
ALErrorRateLow(results) ==
    results.n >= ALMinSamples /\ 2 * ALErrorThresholdDen * results.errors < results.n

\* avg_latency > latency_threshold (1.0)
ALLatencyHigh(latencies) ==
    latencies.n >= ALMinSamples /\ latencies.sum > ALLatencyThreshold * latencies.n

\* avg_latency < latency_threshold / 2
ALLatencyLow(latencies) ==
    latencies.n >= ALMinSamples /\ 2 * latencies.sum < ALLatencyThreshold * latencies.n

\* should_reduce as _maybe_adapt computes it from the four signals
ALShouldReduce(cpu, memory, results, latencies) ==
    \/ cpu = "over"
    \/ memory = "over"
    \/ ALErrorRateHigh(results)
    \/ ALLatencyHigh(latencies)

\* should_increase: set by the elif branch of either sample test
ALShouldIncrease(results, latencies) ==
    \/ (~ALErrorRateHigh(results) /\ ALErrorRateLow(results))
    \/ (~ALLatencyHigh(latencies) /\ ALLatencyLow(latencies))

\* the new limit of the reduce branch
ALReduced(current, base) == Max(current \div ALAdaptationDen, base \div ALFloorDen)

\* the new limit of the increase branch
ALRecovered(current, base) == Min((current * ALRecoveryNum) \div ALRecoveryDen, base)

\* _maybe_adapt past the check_interval test: "reduce", "increase" or "none"
ALDirection(cpu, memory, results, latencies, current, base) ==
    IF ALShouldReduce(cpu, memory, results, latencies) /\ ALFloorDen * current > base
    THEN "reduce"
    ELSE IF ALShouldIncrease(results, latencies) /\ current < base
    THEN "increase"
    ELSE "none"

\* TokenBucketAlgorithm._refill_tokens of the inner limiter (refill_rate =
\* limit / window), in units of 1 / ALWindow of a token.
ALRefillTokens(bucket, capacity, current_time) ==
    IF bucket = Absent THEN capacity * ALWindow
    ELSE IF current_time - bucket.last > 0
    THEN Min(capacity * ALWindow, bucket.tokens + (current_time - bucket.last) * capacity)
    ELSE bucket.tokens

\* The test at the head of _maybe_adapt, passed at every call.
ALDueAlways(last_check, current_time) == TRUE

\* The test at the head of _maybe_adapt: FALSE while
\* current_time - self._last_check < self.check_interval.
ALDue(last_check, current_time) == current_time - last_check >= ALCheckInterval

\* allow: _maybe_adapt, then self._limiter.allow(key, weight).  _adapt_limit
\* sets current_limit and counts the adaptation before reconfigure builds
\* the new algorithm, whose constructor raises for a capacity <= 0.
ALAllow(key, weight, cpu, memory) ==
    /\ LET due == ALDue(al_last_check, now)
           direction == IF due
                        THEN ALDirection(cpu, memory, al_results, al_latencies,
                                         al_current_limit, al_base_limit)
                        ELSE "none"
           new_limit == IF direction = "reduce"
                        THEN ALReduced(al_current_limit, al_base_limit)
                        ELSE IF direction = "increase"
                        THEN ALRecovered(al_current_limit, al_base_limit)
                        ELSE al_current_limit
           rebuilt == direction # "none" /\ new_limit > 0
           capacity == IF rebuilt THEN new_limit ELSE al_capacity
           bucket == IF rebuilt THEN Absent ELSE al_bucket
           tokens == ALRefillTokens(bucket, capacity, now)
           call == [op |-> "al_allow", direction |-> direction] IN
       /\ al_last_check' = IF due THEN now ELSE al_last_check
       /\ al_current_limit' = new_limit
       /\ al_adaptations' = al_adaptations + (IF direction = "none" THEN 0 ELSE 1)
       /\ al_adapted_at' = IF direction = "none" THEN al_adapted_at ELSE [t |-> now]
       /\ al_capacity' = capacity
       /\ IF direction # "none" /\ new_limit <= 0
          THEN /\ res' = call @@ [error |-> TRUE]
               /\ al_bucket' = al_bucket
          ELSE IF weight <= 0
          THEN /\ res' = call @@ [error |-> TRUE]
               /\ al_bucket' = bucket
          ELSE IF tokens >= weight * ALWindow
          THEN /\ res' = call @@ [error |-> FALSE, allowed |-> TRUE]
               /\ al_bucket' = [tokens |-> tokens - weight * ALWindow, last |-> now]
          ELSE /\ res' = call @@ [error |-> FALSE, allowed |-> FALSE]
               /\ al_bucket' = [tokens |-> tokens, last |-> now]
    /\ UNCHANGED <<now, al_base_limit, al_results, al_latencies>>
    /\ UNCHANGED alOthers

ALRecordSuccess(latency) ==
    /\ al_results.n < ALMaxSamples
    /\ al_results.n < ALWindowSize
    /\ latency # NoLatency => al_latencies.n < ALWindowSize
    /\ latency = NoLatency => al_results.n - al_latencies.n < ALMaxUnmeasured
    /\ (latency # NoLatency /\ latency.t = ALSlowLatency) =>
           al_latencies.sum < ALMaxSlow * ALSlowLatency
    /\ al_results' = ALAppendResult(al_results, TRUE)
    /\ al_latencies' = ALAppendLatency(al_latencies, latency)
    /\ res' = [op |-> "al_record_success"]
    /\ UNCHANGED <<now, al_base_limit, al_current_limit, al_last_check, al_adaptations,
                   al_capacity, al_bucket, al_adapted_at>>
    /\ UNCHANGED alOthers

ALRecordError(latency) ==
    /\ al_results.n < ALMaxSamples
    /\ al_results.n < ALWindowSize
    /\ al_results.errors < ALMaxErrors
    /\ latency # NoLatency => al_latencies.n < ALWindowSize
    /\ latency = NoLatency => al_results.n - al_latencies.n < ALMaxUnmeasured
    /\ (latency # NoLatency /\ latency.t = ALSlowLatency) =>
           al_latencies.sum < ALMaxSlow * ALSlowLatency
    /\ al_results' = ALAppendResult(al_results, FALSE)
    /\ al_latencies' = ALAppendLatency(al_latencies, latency)
    /\ res' = [op |-> "al_record_error"]
    /\ UNCHANGED <<now, al_base_limit, al_current_limit, al_last_check, al_adaptations,
                   al_capacity, al_bucket, al_adapted_at>>
    /\ UNCHANGED alOthers

\* check: the inner limiter's check with the adaptive metadata.
ALCheck(key) ==
    /\ res' = [op |-> "al_check", limit |-> al_capacity,
               remaining |-> ALRefillTokens(al_bucket, al_capacity, now) \div ALWindow,
               current_limit |-> al_current_limit, adaptations |-> al_adaptations]
    /\ UNCHANGED <<now, alVars>>
    /\ UNCHANGED alOthers

\* reset(key): the inner limiter's reset of the key.
ALReset(key) ==
    /\ al_bucket' = Absent
    /\ res' = [op |-> "al_reset"]
    /\ UNCHANGED <<now, al_base_limit, al_current_limit, al_results, al_latencies,
                   al_last_check, al_adaptations, al_capacity, al_adapted_at>>
    /\ UNCHANGED alOthers

\* reset(): also clears the samples and puts current_limit back to base_limit;
\* the inner limiter is not reconfigured.
ALResetAll ==
    /\ al_bucket' = Absent
    /\ al_results' = [n |-> 0, errors |-> 0]
    /\ al_latencies' = [n |-> 0, sum |-> 0]
    /\ al_current_limit' = al_base_limit
    /\ res' = [op |-> "al_reset_all"]
    /\ UNCHANGED <<now, al_base_limit, al_last_check, al_adaptations, al_capacity,
                   al_adapted_at>>
    /\ UNCHANGED alOthers

ALInit(base_limits) ==
    /\ al_base_limit \in base_limits
    /\ al_current_limit = al_base_limit
    /\ al_results = [n |-> 0, errors |-> 0]
    /\ al_latencies = [n |-> 0, sum |-> 0]
    /\ al_last_check = 0
    /\ al_adaptations = 0
    /\ al_capacity = al_base_limit
    /\ al_bucket = Absent
    /\ al_adapted_at = Absent

(***************************************************************************)
(* MultiRegionBackend (ratelink/backends/multi_region.py) over one region  *)
(* and a global coordinator, both MemoryBackend without ttl, as the tests  *)
(* build it.  Whether the regional backend raises BackendError is an input *)
(* of each call.  A state is (limit, remaining, violated).  max_cache_size *)
(* is far above the number of keys, so _update_cache never evicts.         *)
(***************************************************************************)
MRCacheTtl == 2
MRMaxWeight == 2
MRMaxLimit == 2
MRMaxTime == 3

\* the literals of _handle_failover
MRFailoverLimit == 1000
MRPermissiveLimit == 1000000

MRKeys == {"k"}
MRWeights == 0 .. MRMaxWeight
MRFailoverModes == {"local_cache", "deny", "allow", "other"}

MRState(limit, remaining, violated) ==
    [limit |-> limit, remaining |-> remaining, violated |-> violated]

\* _get_from_cache: the cached state, or Absent when there is none or it is
\* local_cache_ttl old.
MRGetFromCache(cache, key, current_time) ==
    IF cache[key] # Absent /\ current_time - cache[key].timestamp < MRCacheTtl
    THEN cache[key].state
    ELSE Absent

\* _get_from_cache deletes the entry it finds expired.
MRCachePruned(cache, key, current_time) ==
    IF MRGetFromCache(cache, key, current_time) = Absent
    THEN [cache EXCEPT ![key] = Absent]
    ELSE cache

\* _update_cache
MRUpdateCache(cache, key, state, current_time) ==
    [cache EXCEPT ![key] = [state |-> state, timestamp |-> current_time]]

\* MemoryBackend.consume on the regional store, for weight > 0.
MRRegionConsume(row, weight) ==
    IF row = Absent
    THEN MRState(weight, 0, FALSE)
    ELSE MRState(row.limit, Max(0, row.remaining - weight), row.violated)

\* MemoryBackend.check on the regional store.
MRRegionCheck(row) == IF row = Absent THEN MRState(0, 0, FALSE) ELSE row

\* _handle_failover: what it returns and the cache it leaves, or the
\* ValueError of an unknown mode.
MRHandleFailover(mode, cache, key, weight, current_time) ==
    LET cached_state == MRGetFromCache(cache, key, current_time)
        pruned == MRCachePruned(cache, key, current_time) IN
    IF mode = "local_cache"
    THEN IF cached_state # Absent /\ cached_state.remaining >= weight
         THEN [error |-> FALSE, allowed |-> TRUE, state |-> cached_state, cache |-> pruned]
         ELSE LET default_state == MRState(MRFailoverLimit, MRFailoverLimit - weight, FALSE) IN
              [error |-> FALSE, allowed |-> TRUE, state |-> default_state,
               cache |-> MRUpdateCache(pruned, key, default_state, current_time)]
    ELSE IF mode = "deny"
    THEN [error |-> FALSE, allowed |-> FALSE, state |-> MRState(0, 0, TRUE), cache |-> cache]
    ELSE IF mode = "allow"
    THEN [error |-> FALSE, allowed |-> TRUE,
          state |-> MRState(MRPermissiveLimit, MRPermissiveLimit, FALSE), cache |-> cache]
    ELSE [error |-> TRUE, cache |-> cache]

\* allow(key, weight): a cached state that covers the weight is returned as it
\* is; otherwise the regional consume, whose BackendError goes to
\* _handle_failover.  _sync_to_global calls global_coordinator.consume(key,
\* weight=0), which MemoryBackend refuses with a ValueError that is dropped, so
\* _last_sync stays as it is.
MRAllow(key, weight, fails) ==
    /\ LET cached_state == MRGetFromCache(mr_cache, key, now)
           pruned == MRCachePruned(mr_cache, key, now)
           call == [op |-> "mr_allow", weight |-> weight] IN
       IF cached_state # Absent /\ cached_state.remaining >= weight
       THEN /\ res' = call @@ [failed |-> FALSE, error |-> FALSE, allowed |-> TRUE,
                               state |-> cached_state]
            /\ UNCHANGED <<mr_cache, mr_region>>
       ELSE IF fails
       THEN LET f == MRHandleFailover(mr_failover_mode, pruned, key, weight, now) IN
            /\ res' = IF f.error THEN call @@ [failed |-> TRUE, error |-> TRUE]
                      ELSE call @@ [failed |-> TRUE, error |-> FALSE,
                                    allowed |-> f.allowed, state |-> f.state]
            /\ mr_cache' = f.cache
            /\ UNCHANGED mr_region
       ELSE IF weight <= 0
       THEN /\ res' = call @@ [failed |-> FALSE, error |-> TRUE]
            /\ mr_cache' = pruned
            /\ UNCHANGED mr_region
       ELSE LET regional_state == MRRegionConsume(mr_region[key], weight) IN
            /\ mr_region' = [mr_region EXCEPT ![key] = regional_state]
            /\ mr_cache' = MRUpdateCache(pruned, key, regional_state, now)
            /\ res' = call @@ [failed |-> FALSE, error |-> FALSE,
                               allowed |-> ~regional_state.violated,
                               state |-> regional_state]
    /\ UNCHANGED <<now, mr_failover_mode, mr_last_sync>>
    /\ UNCHANGED mrOthers

\* check(key): the cached state if there is one; otherwise the regional
\* check, and on BackendError a state of limit 0, remaining 0, not violated.
MRCheck(key, fails) ==
    /\ LET cached_state == MRGetFromCache(mr_cache, key, now)
           pruned == MRCachePruned(mr_cache, key, now) IN
       IF cached_state # Absent
       THEN /\ res' = [op |-> "mr_check", failed |-> FALSE, error |-> FALSE,
                       state |-> cached_state]
            /\ UNCHANGED mr_cache
       ELSE IF fails
       THEN /\ res' = [op |-> "mr_check", failed |-> TRUE, error |-> FALSE,
                       state |-> MRState(0, 0, FALSE)]
            /\ mr_cache' = pruned
       ELSE LET state == MRRegionCheck(mr_region[key]) IN
            /\ res' = [op |-> "mr_check", failed |-> FALSE, error |-> FALSE, state |-> state]
            /\ mr_cache' = MRUpdateCache(pruned, key, state, now)
    /\ UNCHANGED <<now, mr_failover_mode, mr_last_sync, mr_region>>
    /\ UNCHANGED mrOthers

\* reset(key): drops the cache entry, then resets the region and the
\* coordinator, passing over any exception of either.
MRReset(key, fails) ==
    /\ mr_cache' = [mr_cache EXCEPT ![key] = Absent]
    /\ mr_last_sync' = [mr_last_sync EXCEPT ![key] = Absent]
    /\ mr_region' = IF fails THEN mr_region ELSE [mr_region EXCEPT ![key] = Absent]
    /\ res' = [op |-> "mr_reset", failed |-> fails, error |-> FALSE]
    /\ UNCHANGED <<now, mr_failover_mode>>
    /\ UNCHANGED mrOthers

\* MemoryBackend.set_state on the regional backend.
MRRegionSetState(key, limit, remaining) ==
    /\ mr_region' = [mr_region EXCEPT ![key] = MRState(limit, remaining, FALSE)]
    /\ res' = [op |-> "mr_set_state"]
    /\ UNCHANGED <<now, mr_failover_mode, mr_cache, mr_last_sync>>
    /\ UNCHANGED mrOthers

MRInit(failover_modes) ==
    /\ mr_failover_mode \in failover_modes
    /\ mr_cache = [k \in MRKeys |-> Absent]
    /\ mr_last_sync = [k \in MRKeys |-> Absent]
    /\ mr_region = [k \in MRKeys |-> Absent]

(***************************************************************************)
(* RateLimiter hooks (ratelink/rate_limiter.py): a limiter over the token  *)
(* bucket above, one key, with callbacks registered on its five events.    *)
(* A callback either returns or raises an Exception.  The outcome of allow *)
(* records which exception, if any, reached the caller and the callbacks   *)
(* that were called, in order.                                             *)
(***************************************************************************)
HKMaxHooks == 2

HKEvents == {"before_check", "after_check", "on_allow", "on_deny", "on_error"}
HKCallbacks == {"returns", "raises"}
HKNoHooks == [e \in HKEvents |-> <<>>]

RECURSIVE HKFirstRaising(_, _)
\* The position of the first callback from position i on that raises; 0 if none.
HKFirstRaising(callbacks, i) ==
    IF i > Len(callbacks) THEN 0
    ELSE IF callbacks[i] = "raises" THEN i
    ELSE HKFirstRaising(callbacks, i + 1)

\* _run_hooks without its try/except: the first exception of a callback ends
\* the loop and leaves the function.
HKRunHooksUnguarded(hooks, event) ==
    LET stop == HKFirstRaising(hooks[event], 1) IN
    IF stop = 0
    THEN [fired |-> [i \in 1 .. Len(hooks[event]) |-> <<event, hooks[event][i]>>],
          escaped |-> FALSE]
    ELSE [fired |-> [i \in 1 .. stop |-> <<event, hooks[event][i]>>], escaped |-> TRUE]

\* _run_hooks(event, ...): every callback of the event is called in list
\* order; an Exception of a callback is caught and passed over.
HKRunHooks(hooks, event) ==
    [fired |-> [i \in 1 .. Len(hooks[event]) |-> <<event, hooks[event][i]>>],
     escaped |-> FALSE]

\* The except clause of allow: on_error hooks, then the exception goes on.
HKOnError(hooks, bucket, exc, fired) ==
    LET e == HKRunHooks(hooks, "on_error") IN
    [bucket |-> bucket, exc |-> IF e.escaped THEN "hook" ELSE exc, allowed |-> FALSE,
     fired |-> fired \o e.fired]

\* allow(key, weight): what it returns or raises, the bucket it leaves and
\* the callbacks it called.
HKAllowOutcome(hooks, bucket, raise_on_limit, weight, current_time) ==
    LET before == HKRunHooks(hooks, "before_check") IN
    IF before.escaped
    THEN [bucket |-> bucket, exc |-> "hook", allowed |-> FALSE, fired |-> before.fired]
    ELSE IF weight <= 0
    THEN HKOnError(hooks, bucket, "ValueError", before.fired)
    ELSE
    LET d == TBDecide(bucket, weight, current_time)
        after == HKRunHooks(hooks, "after_check")
        decided == HKRunHooks(hooks, IF d.allowed THEN "on_allow" ELSE "on_deny")
        fired == before.fired \o after.fired \o decided.fired IN
    IF after.escaped
    THEN HKOnError(hooks, d.bucket, "hook", before.fired \o after.fired)
    ELSE IF decided.escaped
    THEN HKOnError(hooks, d.bucket, "hook", fired)
    ELSE IF d.allowed
    THEN [bucket |-> d.bucket, exc |-> "none", allowed |-> TRUE, fired |-> fired]
    ELSE IF raise_on_limit
    THEN HKOnError(hooks, d.bucket, "LimitExceeded", fired)
    ELSE [bucket |-> d.bucket, exc |-> "none", allowed |-> FALSE, fired |-> fired]

HKAllow(key, weight) ==
    /\ LET o == HKAllowOutcome(hk_hooks, hk_bucket, hk_raise_on_limit, weight, now) IN
       /\ hk_bucket' = o.bucket
       /\ res' = [op |-> "hk_allow", weight |-> weight, exc |-> o.exc,
                  allowed |-> o.allowed, fired |-> o.fired]
    /\ UNCHANGED <<now, hk_raise_on_limit, hk_hooks>>
    /\ UNCHANGED hkOthers

\* register_hook(event, callback): ValueError for an unknown event.
HKRegisterHook(event, callback) ==
    /\ SumOver([e \in HKEvents |-> Len(hk_hooks[e])], HKEvents) < HKMaxHooks
    /\ IF event \in HKEvents
       THEN /\ hk_hooks' = [hk_hooks EXCEPT ![event] = Append(@, callback)]
            /\ res' = [op |-> "hk_register_hook", error |-> FALSE]
       ELSE /\ res' = [op |-> "hk_register_hook", error |-> TRUE]
            /\ UNCHANGED hk_hooks
    /\ UNCHANGED <<now, hk_raise_on_limit, hk_bucket>>
    /\ UNCHANGED hkOthers

HKInit(raise_on_limits) ==
    /\ hk_raise_on_limit \in raise_on_limits
    /\ hk_hooks = HKNoHooks
    /\ hk_bucket = Absent

(***************************************************************************)
(* Worker threads on one algorithm instance: each thread makes one         *)
(* allow(key, 1) at a time on the same key, and the pool joins them.  A    *)
(* thread's call is followed statement by statement: the timestamp read   *)
(* before the lock, the lock, the read of the stored state with the        *)
(* decision, the store with the release of the lock.                       *)
(***************************************************************************)
CTThreads == {"t1", "t2", "t3"}

CTAlgorithms == {"token_bucket", "fixed_window"}

NoThread == "none"

\* with self._lock: whether the thread may enter.
CTLockFreeAlways(lock) == TRUE

CTLockFree(lock) == lock = NoThread

\* The body of allow(key, 1) of the shared instance, from the state it reads:
\* the decision, whether it stores, and what it stores.
CTDecide(alg, stored, current_time) ==
    IF alg = "token_bucket"
    THEN LET d == TBDecide(stored, 1, current_time)
         IN  [stores |-> TRUE, stored |-> d.bucket,
              allowed |-> d.allowed, remaining |-> d.remaining]
    ELSE LET d == FWDecide(stored, 1, current_time)
         IN  [stores |-> d.allowed, stored |-> d.window,
              allowed |-> d.allowed, remaining |-> d.remaining]

\* allow(key, 1) up to the lock: the weight is valid, the clock is read.
CTCall(t) ==
    /\ ct_pc[t] = "idle"
    /\ ct_pc' = [ct_pc EXCEPT ![t] = "called"]
    /\ ct_time' = [ct_time EXCEPT ![t] = now]
    /\ IF \A u \in CTThreads : ct_pc[u] = "idle"
       THEN ct_base' = ct_state /\ ct_start' = now
       ELSE UNCHANGED <<ct_base, ct_start>>
    /\ res' = [op |-> "ct_call", thread |-> t]
    /\ UNCHANGED <<now, ct_algorithm, ct_state, ct_lock, ct_local, ctOthers>>

CTAcquire(t) ==
    /\ ct_pc[t] = "called"
    /\ CTLockFree(ct_lock)
    /\ ct_lock' = t
    /\ ct_pc' = [ct_pc EXCEPT ![t] = "locked"]
    /\ res' = [op |-> "ct_acquire", thread |-> t]
    /\ UNCHANGED <<now, ct_algorithm, ct_state, ct_time, ct_local, ct_base, ct_start, ctOthers>>

\* _refill_tokens / _get_current_window and the comparison with the weight.
CTRead(t) ==
    /\ ct_pc[t] = "locked"
    /\ ct_local' = [ct_local EXCEPT ![t] = CTDecide(ct_algorithm, ct_state, ct_time[t])]
    /\ ct_pc' = [ct_pc EXCEPT ![t] = "decided"]
    /\ res' = [op |-> "ct_read", thread |-> t]
    /\ UNCHANGED <<now, ct_algorithm, ct_state, ct_lock, ct_time, ct_base, ct_start, ctOthers>>

\* The store of the branch taken, the return and the release of the lock.
CTWrite(t) ==
    /\ ct_pc[t] = "decided"
    /\ ct_state' = IF ct_local[t].stores THEN ct_local[t].stored ELSE ct_state
    /\ ct_lock' = NoThread
    /\ ct_pc' = [ct_pc EXCEPT ![t] = "done"]
    /\ res' = [op |-> "ct_write", thread |-> t, allowed |-> ct_local[t].allowed]
    /\ UNCHANGED <<now, ct_algorithm, ct_time, ct_local, ct_base, ct_start, ctOthers>>

\* The pool collects the results of the calls it submitted.
CTJoin ==
    /\ \A t \in CTThreads : ct_pc[t] \in {"idle", "done"}
    /\ \E t \in CTThreads : ct_pc[t] = "done"
    /\ ct_pc' = [t \in CTThreads |-> "idle"]
    /\ ct_local' = [t \in CTThreads |-> NoRes]
    /\ res' = [op |-> "ct_join",
               admitted |-> Cardinality({t \in CTThreads : ct_pc[t] = "done" /\ ct_local[t].allowed})]
    /\ UNCHANGED <<now, ct_algorithm, ct_state, ct_lock, ct_time, ct_base, ct_start, ctOthers>>

CTInit(ct_algorithms) ==
    /\ ct_algorithm \in ct_algorithms
    /\ ct_state = Absent
    /\ ct_lock = NoThread
    /\ ct_pc = [t \in CTThreads |-> "idle"]
    /\ ct_time = [t \in CTThreads |-> 0]
    /\ ct_local = [t \in CTThreads |-> NoRes]
    /\ ct_base = Absent
    /\ ct_start = 0

(***************************************************************************)
(* Fixed window under clock jitter: one FixedWindowAlgorithm and one key,  *)
(* each allow given whatever reading time.time() returns, which may be     *)
(* earlier than a reading already used.                                    *)
(***************************************************************************)
FWJMaxReading == 5

FWJReadings == 0 .. FWJMaxReading

FWJWindows == {FWGetWindowStart(t) : t \in FWJReadings}

\* allow(key, weight) for weight > 0 with current_time = reading.  The history
\* stops counting past FWLimit + 1.
FWJAllow(weight, reading) ==
    LET d == FWDecide(fwj_window, weight, reading)
        n == FWGetWindowStart(reading)
    IN  /\ fwj_admitted[n] <= FWLimit
        /\ fwj_window' = d.window
        /\ fwj_admitted' = IF d.allowed
                           THEN [fwj_admitted EXCEPT ![n] = Min(@ + weight, FWLimit + 1)]
                           ELSE fwj_admitted
        /\ res' = [op |-> "fwj_allow", weight |-> weight, t |-> reading,
                   allowed |-> d.allowed, remaining |-> d.remaining]
        /\ UNCHANGED <<now, fwjOthers>>

FWJInit ==
    /\ fwj_window = Absent
    /\ fwj_admitted = [n \in FWJWindows |-> 0]

(***************************************************************************)
(* Tier migration beside admissions: threads that each call                *)
(* upgrade_tier(key, "free", "pro", preserve_state = True) once, while     *)
(* allow(key, "free") is called from other threads.  PriorityRateLimiter   *)
(* holds no lock of its own: the check, the allow and the reset that       *)
(* upgrade_tier makes are each atomic under the algorithm's lock, and      *)
(* anything may run between them.                                          *)
(***************************************************************************)
PUThreads == {"u1", "u2"}

PUKey == "u"

PUFrom == "free"

PUTo == "pro"

\* consumed = int(new_limit * usage_pct)
PUConsumed(state) == (PLLimit(PUTo) * (state.limit - state.remaining)) \div state.limit

\* allow(key, "free", weight) for weight > 0, from a thread of its own.
PUAllow(weight) ==
    LET name == PLTierKey(PUFrom, PUKey)
        d == PLDecide(pl_buckets[PUFrom][name], PLLimit(PUFrom), weight, now)
    IN  /\ pl_buckets' = [pl_buckets EXCEPT ![PUFrom][name] = d.bucket]
        /\ pu_admitted' = pu_admitted + (IF d.allowed THEN weight ELSE 0)
        /\ res' = [op |-> "pu_allow", weight |-> weight, allowed |-> d.allowed]
        /\ UNCHANGED <<now, pu_pc, pu_state, pu_debited>>
        /\ UNCHANGED puOthers

\* upgrade_tier, up to state = old_limiter.check(old_key).
PUCheck(u) ==
    /\ pu_pc[u] = "check"
    /\ pu_state' = [pu_state EXCEPT ![u] = PLCheckState(PUFrom, PLTierKey(PUFrom, PUKey), now)]
    /\ pu_pc' = [pu_pc EXCEPT ![u] = "allow"]
    /\ res' = [op |-> "pu_check", thread |-> u]
    /\ UNCHANGED <<now, pl_buckets, pu_admitted, pu_debited>>
    /\ UNCHANGED puOthers

\* upgrade_tier: new_limiter.allow(new_key, weight = consumed) when consumed > 0.
PUDebit(u) ==
    /\ pu_pc[u] = "allow"
    /\ LET consumed == PUConsumed(pu_state[u])
           name == PLTierKey(PUTo, PUKey)
           d == PLDecide(pl_buckets[PUTo][name], PLLimit(PUTo), consumed, now)
           taken == consumed > 0 /\ d.allowed IN
       /\ pl_buckets' = IF consumed > 0
                        THEN [pl_buckets EXCEPT ![PUTo][name] = d.bucket]
                        ELSE pl_buckets
       /\ pu_debited' = pu_debited + (IF taken THEN consumed ELSE 0)
       /\ res' = [op |-> "pu_debit", thread |-> u, consumed |-> consumed, taken |-> taken]
    /\ pu_pc' = [pu_pc EXCEPT ![u] = "reset"]
    /\ UNCHANGED <<now, pu_state, pu_admitted>>
    /\ UNCHANGED puOthers

\* upgrade_tier: self.reset(key, tier = from_tier), and the return.
PUReset(u) ==
    /\ pu_pc[u] = "reset"
    /\ pl_buckets' = PLResetBuckets(pl_buckets, PUKey, PUFrom)
    /\ pu_pc' = [pu_pc EXCEPT ![u] = "done"]
    /\ res' = [op |-> "pu_reset", thread |-> u]
    /\ UNCHANGED <<now, pu_state, pu_admitted, pu_debited>>
    /\ UNCHANGED puOthers

PUInit ==
    /\ pu_pc = [u \in PUThreads |-> "check"]
    /\ pu_state = [u \in PUThreads |-> [limit |-> PLLimit(PUFrom), remaining |-> PLLimit(PUFrom)]]
    /\ pu_admitted = 0
    /\ pu_debited = 0

(***************************************************************************)
(* The clock.  Tick is the passage of time between two calls, up to the    *)
(* horizon of the specification; the histories that speak of one instant   *)
(* or one window move with it.                                             *)
(***************************************************************************)
Tick(horizon) ==
    /\ now < horizon
    /\ now' = now + 1
    /\ res' = [op |-> "tick"]
    /\ tb_burst' = [k \in Keys |-> 0]
    /\ sw_log' = [k \in Keys |-> SWLogAt(sw_log[k], now + 1)]
    /\ fw_admitted' = IF (now + 1) \div FWWindow # now \div FWWindow
                      THEN [k \in Keys |-> [fresh |-> 0, stale |-> 0]] ELSE fw_admitted
    /\ gcra_burst' = [k \in Keys |-> 0]
    /\ htb_admitted' = [unit_run |-> FALSE, n |-> 0]
    /\ fq_saturation' = FQSaturationOff
    /\ rl_admitted' = [k \in RLKeys |-> 0]
    /\ UNCHANGED <<tb_buckets, sw_requests, fw_windows, gcra_tats, gcra_last_admit,
                   htb_limits, htb_global_bucket, htb_tenant_buckets, htb_user_buckets,
                   fq_max_per_key, fq_key_counts, rl_buckets, memVars,
                   remoteVars,
                   lbVars,
                   algVars,
                   plVars,
                   qpVars,
                   alVars,
                   mrVars,
                   hkVars,
                   ctVars,
                   fwjVars,
                   puVars>>

(***************************************************************************)
(* Specifications: one per component, each with the clock.                 *)
(***************************************************************************)
\* Every component as constructed at time 0.  A specification draws the
\* construction parameters of its own component; the others are built with
\* their defaults.
InitWith(htb_configs, fq_options, mem_options, remote_kinds, algorithms, qp_option_sets,
         al_base_limits, mr_failover_modes, hk_raise_on_limits, ct_algorithms) ==
    /\ now = 0
    /\ res = NoRes
    /\ TBInit
    /\ SWInit
    /\ FWInit
    /\ GCRAInit
    /\ HTBInit(htb_configs)
    /\ FQInit(fq_options)
    /\ RLInit
    /\ MemInit(mem_options)
    /\ RemoteInit(remote_kinds)
    /\ LBInit
    /\ AlgInit(algorithms)
    /\ PLInit
    /\ QPInit(qp_option_sets)
    /\ ALInit(al_base_limits)
    /\ MRInit(mr_failover_modes)
    /\ HKInit(hk_raise_on_limits)
    /\ CTInit(ct_algorithms)
    /\ FWJInit
    /\ PUInit

HTBDefault == {[global |-> HTBMaxLimit, tenant |-> HTBMaxLimit, user |-> HTBMaxLimit]}

Init == InitWith(HTBDefault, {0}, {0}, {"postgresql"}, {"token_bucket"}, {QPDefaultOptions}, {ALLargeBase}, {"local_cache"}, {FALSE}, {"token_bucket"})

NextTB ==
    \/ Tick(MaxTime)
    \/ \E k \in Keys, w \in TBWeights : TBAllow(k, w)
    \/ \E k \in Keys : TBCheck(k)
    \/ \E k \in Keys : TBReset(k)
    \/ TBResetAll

SpecTB == Init /\ [][NextTB]_vars

NextSW ==
    \/ Tick(MaxTime)
    \/ \E k \in Keys, w \in SWWeights : SWAllow(k, w)
    \/ \E k \in Keys : SWCheck(k)
    \/ \E k \in Keys : SWReset(k)
    \/ SWResetAll

SpecSW == Init /\ [][NextSW]_vars

NextFW ==
    \/ Tick(MaxTime)
    \/ \E k \in Keys, w \in FWWeights : FWAllow(k, w)
    \/ \E k \in Keys : FWCheck(k)
    \/ \E k \in Keys : FWReset(k)
    \/ FWResetAll

SpecFW == Init /\ [][NextFW]_vars

NextGCRA ==
    \/ Tick(MaxTime)
    \/ \E k \in Keys, w \in GCRAWeights : GCRAAllow(k, w)
    \/ \E k \in Keys : GCRACheck(k)
    \/ \E k \in Keys : GCRAReset(k)
    \/ GCRAResetAll

SpecGCRA == Init /\ [][NextGCRA]_vars

NextHTB ==
    \/ Tick(HTBMaxTime)
    \/ \E k \in Keys, w \in HTBWeights, t \in HTBTenants \cup {NoTenant} : HTBAllow(k, w, t)
    \/ \E k \in Keys : HTBCheck(k)
    \/ \E k \in Keys : HTBReset(k)
    \/ HTBResetAll

SpecHTB == InitWith(HTBConfigs, {0}, {0}, {"postgresql"}, {"token_bucket"}, {QPDefaultOptions}, {ALLargeBase}, {"local_cache"}, {FALSE}, {"token_bucket"}) /\ [][NextHTB]_vars

NextFQ ==
    \/ Tick(MaxTime)
    \/ \E k \in Keys, w \in FQWeights, c \in FQClasses : FQAllow(k, w, c)
    \/ \E k \in Keys : FQCheck(k)
    \/ \E k \in Keys : FQReset(k)
    \/ FQResetAll

SpecFQ == InitWith(HTBDefault, {0, FQMaxPerKey}, {0}, {"postgresql"}, {"token_bucket"}, {QPDefaultOptions}, {ALLargeBase}, {"local_cache"}, {FALSE}, {"token_bucket"}) /\ [][NextFQ]_vars

NextRL ==
    \/ Tick(MaxTime)
    \/ \E i \in RLInstances, k \in RLKeys, w \in TBWeights : RLAllow(i, k, w)
    \/ \E i \in RLInstances, k \in RLKeys : RLCheck(i, k)
    \/ \E i \in RLInstances, k \in RLKeys : RLReset(i, k)

SpecRL == Init /\ [][NextRL]_vars

NextMem ==
    \/ Tick(MaxTime)
    \/ \E k \in Keys, l \in 1 .. MemMaxLimit : \E r \in 0 .. l : MemSetState(k, l, r)
    \/ \E k \in Keys, w \in MemWeights : MemConsume(k, w)
    \/ \E k \in Keys : MemCheck(k)
    \/ \E k \in Keys : MemReset(k)
    \/ MemResetAll

SpecMem == InitWith(HTBDefault, {0}, {0, MemTTL}, {"postgresql"}, {"token_bucket"}, {QPDefaultOptions}, {ALLargeBase}, {"local_cache"}, {FALSE}, {"token_bucket"}) /\ [][NextMem]_vars

NextLB ==
    \/ Tick(MaxTime)
    \/ \E k \in Keys, w \in LBWeights : LBAllow(k, w)
    \/ \E k \in Keys : LBCheck(k)
    \/ \E k \in Keys : LBReset(k)
    \/ LBResetAll

SpecLB == Init /\ [][NextLB]_vars

NextAlg ==
    \/ Tick(MaxTime)
    \/ \E k \in Keys, w \in AlgWeights : AlgAllow(k, w)
    \/ \E k \in Keys : AlgCheck(k)
    \/ \E k \in Keys : AlgReset(k)

SpecAlg == InitWith(HTBDefault, {0}, {0}, {"postgresql"}, Algorithms, {QPDefaultOptions}, {ALLargeBase}, {"local_cache"}, {FALSE}, {"token_bucket"}) /\ [][NextAlg]_vars

NextPL ==
    \/ Tick(PLMaxTime)
    \/ \E k \in PLKeys, t \in PLTierArgs, w \in PLWeights : PLAllow(k, t, w)
    \/ \E k \in PLKeys, t \in PLTierArgs : PLCheck(k, t)
    \/ \E k \in PLKeys, t \in PLTierArgs : PLReset(k, t)
    \/ \E k \in PLKeys, f \in PLTierArgs \ {NoTier}, t \in PLTierArgs \ {NoTier}, p \in BOOLEAN :
           PLUpgradeTier(k, f, t, p)

SpecPL == Init /\ [][NextPL]_vars

NextQP ==
    \/ Tick(MaxTime)
    \/ \E m \in QPMembers, w \in QPWeights, f \in BOOLEAN : QPConsume(m, w, f)
    \/ QPGetStats
    \/ QPReset
    \/ \E m \in QPMembers : QPRemoveMember(m)

SpecQPRollover ==
    InitWith(HTBDefault, {0}, {0}, {"postgresql"}, {"token_bucket"}, QPRolloverOptions, {ALLargeBase}, {"local_cache"}, {FALSE}, {"token_bucket"})
        /\ [][NextQP]_vars

NextAL ==
    \/ Tick(ALMaxTime)
    \/ \E k \in ALKeys, w \in ALWeights, c \in ALReadings, m \in ALReadings : ALAllow(k, w, c, m)
    \/ \E l \in ALLatencyArgs : ALRecordSuccess(l)
    \/ \E l \in ALLatencyArgs : ALRecordError(l)
    \/ \E k \in ALKeys : ALCheck(k)
    \/ \E k \in ALKeys : ALReset(k)
    \/ ALResetAll

SpecAL ==
    InitWith(HTBDefault, {0}, {0}, {"postgresql"}, {"token_bucket"}, {QPDefaultOptions}, ALBaseLimits, {"local_cache"}, {FALSE}, {"token_bucket"})
        /\ [][NextAL]_vars

NextMR ==
    \/ Tick(MRMaxTime)
    \/ \E k \in MRKeys, w \in MRWeights, f \in BOOLEAN : MRAllow(k, w, f)
    \/ \E k \in MRKeys, f \in BOOLEAN : MRCheck(k, f)
    \/ \E k \in MRKeys, f \in BOOLEAN : MRReset(k, f)
    \/ \E k \in MRKeys, l \in 1 .. MRMaxLimit : \E r \in 0 .. l : MRRegionSetState(k, l, r)

SpecMR ==
    InitWith(HTBDefault, {0}, {0}, {"postgresql"}, {"token_bucket"}, {QPDefaultOptions}, {ALLargeBase},
             MRFailoverModes, {FALSE}, {"token_bucket"})
        /\ [][NextMR]_vars

NextHK ==
    \/ Tick(MaxTime)
    \/ \E k \in {"k"}, w \in TBWeights : HKAllow(k, w)
    \/ \E e \in HKEvents \cup {"on_retry"}, c \in HKCallbacks : HKRegisterHook(e, c)

SpecHK ==
    InitWith(HTBDefault, {0}, {0}, {"postgresql"}, {"token_bucket"}, {QPDefaultOptions}, {ALLargeBase},
             {"local_cache"}, BOOLEAN, {"token_bucket"})
        /\ [][NextHK]_vars

\* The memory backend constructed with a ttl, over a clock long enough for a
\* record to expire between two cleanups.
NextMemTTL ==
    \/ Tick(MemMaxTime)
    \/ \E k \in Keys, l \in 1 .. MemMaxLimit : \E r \in 0 .. l : MemSetState(k, l, r)
    \/ \E k \in Keys, w \in MemWeights : MemConsume(k, w)
    \/ \E k \in Keys : MemCheck(k)
    \/ \E k \in Keys : MemReset(k)
    \/ MemResetAll

SpecMemTTL ==
    InitWith(HTBDefault, {0}, {MemTTL}, {"postgresql"}, {"token_bucket"}, {QPDefaultOptions}, {ALLargeBase},
             {"local_cache"}, {FALSE}, {"token_bucket"})
        /\ [][NextMemTTL]_vars

\* Worker threads sharing one algorithm instance and one key.
NextCT ==
    \/ Tick(MaxTime)
    \/ \E t \in CTThreads : CTCall(t)
    \/ \E t \in CTThreads : CTAcquire(t)
    \/ \E t \in CTThreads : CTRead(t)
    \/ \E t \in CTThreads : CTWrite(t)
    \/ CTJoin

SpecCT ==
    InitWith(HTBDefault, {0}, {0}, {"postgresql"}, {"token_bucket"}, {QPDefaultOptions}, {ALLargeBase},
             {"local_cache"}, {FALSE}, CTAlgorithms)
    /\ [][NextCT]_vars

\* The fixed window read through a time source that may step back.
NextFWJ ==
    \/ \E w \in 1 .. FWLimit, t \in FWJReadings : FWJAllow(w, t)

SpecFWJ == Init /\ [][NextFWJ]_vars

NextPU ==
    \/ \E w \in 1 .. PLFreeLimit : PUAllow(w)
    \/ \E u \in PUThreads : PUCheck(u)
    \/ \E u \in PUThreads : PUDebit(u)
    \/ \E u \in PUThreads : PUReset(u)

SpecPU == Init /\ [][NextPU]_vars

SpecQP == InitWith(HTBDefault, {0}, {0}, {"postgresql"}, {"token_bucket"}, QPOptions, {ALLargeBase}, {"local_cache"}, {FALSE}, {"token_bucket"})
              /\ [][NextQP]_vars

NextRemote ==
    \/ Tick(MaxTime)
    \/ \E c \in RemoteClients, k \in RemoteKeys, w \in RemoteWeights : PGConsume(c, k, w)
    \/ \E c \in RemoteClients : PGConsumeSelect(c)
    \/ \E c \in RemoteClients : PGConsumeInsert(c)
    \/ \E c \in RemoteClients, k \in RemoteKeys, w \in RemoteWeights : DDBConsume(c, k, w)
    \/ \E c \in RemoteClients : DDBConsumeCheck(c)
    \/ \E c \in RemoteClients : DDBConsumePut(c)
    \/ \E k \in RemoteKeys : RemoteCheck(k)
    \/ \E k \in RemoteKeys : RemoteReset(k)

SpecRemote == InitWith(HTBDefault, {0}, {0}, RemoteKinds, {"token_bucket"}, {QPDefaultOptions}, {ALLargeBase}, {"local_cache"}, {FALSE}, {"token_bucket"}) /\ [][NextRemote]_vars

\* The MongoDB backend and its clients.
NextMongo ==
    \/ Tick(MaxTime)
    \/ \E c \in RemoteClients, k \in RemoteKeys, w \in MGWeights : MGConsume(c, k, w)
    \/ \E c \in RemoteClients : MGFindOneAndUpdate(c)
    \/ \E c \in RemoteClients : MGFindOne(c)
    \/ \E c \in RemoteClients : MGInsertOne(c)
    \/ \E k \in RemoteKeys : MGTtlMonitor(k)
    \/ \E k \in RemoteKeys : RemoteCheck(k)
    \/ \E k \in RemoteKeys : RemoteReset(k)

SpecMongo ==
    InitWith(HTBDefault, {0}, {0}, {"mongodb"}, {"token_bucket"}, {QPDefaultOptions}, {ALLargeBase},
             {"local_cache"}, {FALSE}, {"token_bucket"})
    /\ [][NextMongo]_vars

(***************************************************************************)
(* C1: RateLimiter instances bound to one backend draw from one budget per *)
(* key.  One token bucket never holds more than its capacity, so what all  *)
(* the instances admit for a key at one instant (since the key was last    *)
(* reset) is at most the capacity.                                         *)
(***************************************************************************)
C1_SharedBudget ==
    \A k \in RLKeys : rl_admitted[k] <= TBCapacity * TBDen

(***************************************************************************)
(* C2: a denied allow(key, w) returns retry_after > 0 and an admitted one  *)
(* returns retry_after = 0.  Stated on the hierarchical token bucket, for  *)
(* the requests that fit in each of its three limits.                      *)
(***************************************************************************)
C2_RetryAfterSign ==
    (/\ res.op = "htb_allow" /\ ~res.error
     /\ res.weight <= htb_limits.global
     /\ res.weight <= htb_limits.tenant
     /\ res.weight <= htb_limits.user) =>
        /\ res.allowed => res.retry_after = 0
        /\ ~res.allowed => res.retry_after > 0

(***************************************************************************)
(* C3: token bucket.  allow(k, w) at time t from the stored (tokens0, t0)  *)
(* is admitted iff tokens1 = min(capacity, tokens0 + (t - t0) * rate) >= w;*)
(* it stores (tokens1 - w, t) on admission and (tokens1, t) on denial; an  *)
(* unseen key starts from (initial_tokens, t).  From a full bucket exactly *)
(* capacity unit requests at one instant are admitted, the next is denied. *)
(***************************************************************************)
C3_Tokens1 ==
    IF res.pre = Absent
    THEN TBInitialTokens * TBDen
    ELSE Min(TBCapacity * TBDen, res.pre.tokens + (res.t - res.pre.last) * TBRefillNum)

C3_TokenBucketAdmission ==
    /\ (res.op = "tb_allow" /\ ~res.error) =>
          /\ res.allowed <=> (C3_Tokens1 >= res.weight * TBDen)
          /\ tb_buckets[res.key] =
                [tokens |-> IF res.allowed THEN C3_Tokens1 - res.weight * TBDen
                            ELSE C3_Tokens1,
                 last |-> res.t]
    /\ \A k \in Keys : tb_burst[k] <= TBCapacity
    /\ (res.op = "tb_allow" /\ ~res.error /\ res.weight = 1 /\ ~res.allowed
            /\ tb_burst[res.key] > 0) => tb_burst[res.key] = TBCapacity

C3_Witness ==
    /\ res.op = "tb_allow" /\ ~res.error /\ res.weight = 1 /\ ~res.allowed
    /\ tb_burst[res.key] = TBCapacity
    /\ res.pre # Absent

(***************************************************************************)
(* C4: sliding window log.  As stated: after any sequence of weighted      *)
(* allow, check and reset calls the weight admitted for one key in the     *)
(* window (now - SWWindow, now] is at most SWLimit.  The history holds one *)
(* entry per admitted unit, whether admitted before (stale) or after       *)
(* (fresh) the key's last reset.                                           *)
(***************************************************************************)
C4_WindowBoundAcrossResets ==
    \A k \in Keys : Len(sw_log[k].fresh) + Len(sw_log[k].stale) <= SWLimit

(***************************************************************************)
(* C4, amended: the weight admitted for one key since the key's last reset *)
(* in the window (now - SWWindow, now] is at most SWLimit, and it is the   *)
(* in-window part of the stored log.                                       *)
(***************************************************************************)
C4_WindowBoundSinceReset ==
    \A k \in Keys :
        /\ Len(sw_log[k].fresh) <= SWLimit
        /\ sw_log[k].fresh =
              IF sw_requests[k] = Absent THEN << >>
              ELSE SelectSeq(sw_requests[k].ts, LAMBDA ts : ts > now - SWWindow)

C4_Witness ==
    /\ res.op = "sw_allow" /\ ~res.error /\ ~res.allowed /\ res.weight = 1
    /\ Len(sw_log[res.key].fresh) = SWLimit
    /\ sw_log[res.key].fresh[1] < now
    /\ sw_log[res.key].fresh[SWLimit] = now

(***************************************************************************)
(* C5: fixed window.  As stated: for every key the weight admitted at the  *)
(* instants of the aligned window [n * FWWindow, (n + 1) * FWWindow)       *)
(* holding now is at most FWLimit.  The history counts the weight admitted *)
(* in that window before (stale) and after (fresh) the key's last reset.   *)
(***************************************************************************)
C5_WindowBoundAcrossResets ==
    \A k \in Keys : fw_admitted[k].fresh + fw_admitted[k].stale <= FWLimit

(***************************************************************************)
(* C5, amended: for every key the weight admitted since the key's last     *)
(* reset at the instants of the aligned window holding now is at most      *)
(* FWLimit, and it is the stored count once the stored window is the one   *)
(* holding now.  A request at exactly the end of the stored window is      *)
(* counted against a count of 0: it is admitted iff its weight is at most  *)
(* FWLimit, and then the stored pair is (weight, t).                       *)
(***************************************************************************)
C5_WindowBoundSinceReset ==
    /\ \A k \in Keys :
          /\ fw_admitted[k].fresh <= FWLimit
          /\ (fw_windows[k] # Absent /\ fw_windows[k].window_start + FWWindow > now)
                => fw_windows[k].count = fw_admitted[k].fresh
    /\ (/\ res.op = "fw_allow" /\ ~res.error /\ res.pre # Absent
        /\ res.t = res.pre.window_start + FWWindow) =>
          /\ res.allowed <=> (res.weight <= FWLimit)
          /\ res.allowed =>
                fw_windows[res.key] = [count |-> res.weight, window_start |-> res.t]

C5_Witness ==
    /\ res.op = "fw_allow" /\ ~res.error /\ res.pre # Absent
    /\ res.t = res.pre.window_start + FWWindow
    /\ res.pre.count = FWLimit
    /\ res.allowed /\ res.weight = FWLimit

(***************************************************************************)
(* C6: GCRA.  From an unseen key exactly GCRABurst unit requests at one    *)
(* instant are admitted and the next is denied with retry_after equal to   *)
(* the emission interval.  An admission at t2 that follows the key's       *)
(* previous admission at t1 < t2, the previous one having used up the      *)
(* burst allowance (the stored arrival time less the allowance is not      *)
(* before t1), comes at least one emission interval after it.  A denial    *)
(* leaves the stored theoretical arrival time as it was.                   *)
(***************************************************************************)
C6_BurstExhausted ==
    /\ res.prev_admit # Absent /\ res.pre # Absent
    /\ res.prev_admit.t < res.t
    /\ res.pre.tat - GCRABurstAllowance >= GCRATime(res.prev_admit.t)

C6_GCRAEnvelope ==
    /\ \A k \in Keys : gcra_burst[k] <= GCRABurst
    /\ (res.op = "gcra_allow" /\ ~res.error) =>
          /\ (res.weight = 1 /\ ~res.allowed /\ gcra_burst[res.key] > 0) =>
                /\ gcra_burst[res.key] = GCRABurst
                /\ res.retry_after = GCRAEmissionInterval
          /\ (res.allowed /\ C6_BurstExhausted) =>
                GCRATime(res.t) - GCRATime(res.prev_admit.t) >= GCRAEmissionInterval
          /\ ~res.allowed => gcra_tats[res.key] = res.pre

C6_Witness ==
    /\ res.op = "gcra_allow" /\ ~res.error /\ res.weight = 1 /\ ~res.allowed
    /\ gcra_burst[res.key] = GCRABurst
    /\ res.retry_after = GCRAEmissionInterval
    /\ gcra_tats[res.key] = res.pre

(***************************************************************************)
(* C7: hierarchical token bucket.  Every allow(key, w, tenant) step is     *)
(* decided on the refilled token counts of the global, the tenant and the  *)
(* user bucket (a bucket not yet stored counts as full): it is denied at   *)
(* the first of the three, in that order, that holds fewer than w tokens,  *)
(* the denial names that level, and no bucket's token count changes;       *)
(* otherwise it is admitted and the three counts drop by exactly w, every  *)
(* other bucket keeping its count.  With tenant and user limits at least   *)
(* the global limit, the unit requests made from construction on at one    *)
(* instant, by any keys and tenants, are admitted exactly global-limit     *)
(* times, and every denial among them reports the global level.            *)
(***************************************************************************)
C7_Tokens(bucket, capacity, current_time) ==
    IF bucket = Absent THEN capacity * HTBDen
    ELSE HTBRefillBucket(bucket, capacity, current_time)

C7_Level(key, weight, tenant) ==
    IF C7_Tokens(htb_global_bucket, htb_limits.global, now) < weight * HTBDen
    THEN [level |-> "global", name |-> ""]
    ELSE IF tenant # NoTenant
            /\ C7_Tokens(htb_tenant_buckets[tenant], htb_limits.tenant, now) < weight * HTBDen
    THEN [level |-> "tenant", name |-> tenant]
    ELSE IF C7_Tokens(htb_user_buckets[key], htb_limits.user, now) < weight * HTBDen
    THEN [level |-> "user", name |-> key]
    ELSE [level |-> "none", name |-> ""]

C7_Debited(key, weight, tenant) ==
    /\ C7_Tokens(htb_global_bucket', htb_limits.global, now) =
           C7_Tokens(htb_global_bucket, htb_limits.global, now) - weight * HTBDen
    /\ \A t \in HTBTenants :
           C7_Tokens(htb_tenant_buckets'[t], htb_limits.tenant, now) =
           C7_Tokens(htb_tenant_buckets[t], htb_limits.tenant, now)
               - (IF t = tenant THEN weight * HTBDen ELSE 0)
    /\ \A k \in Keys :
           C7_Tokens(htb_user_buckets'[k], htb_limits.user, now) =
           C7_Tokens(htb_user_buckets[k], htb_limits.user, now)
               - (IF k = key THEN weight * HTBDen ELSE 0)

C7_AllowStep ==
    (res'.op = "htb_allow" /\ ~res'.error) =>
        LET level == C7_Level(res'.key, res'.weight, res'.tenant)
        IN  /\ res'.allowed <=> (level.level = "none")
            /\ res'.level = level.level /\ res'.name = level.name
            /\ C7_Debited(res'.key, IF res'.allowed THEN res'.weight ELSE 0, res'.tenant)

C7_GlobalRun ==
    (/\ htb_admitted.unit_run
     /\ htb_limits.tenant >= htb_limits.global
     /\ htb_limits.user >= htb_limits.global) =>
        /\ htb_admitted.n <= htb_limits.global
        /\ (res.op = "htb_allow" /\ ~res.error /\ ~res.allowed) =>
              /\ htb_admitted.n = htb_limits.global
              /\ res.level = "global"

C7_HierarchicalAdmission == [][C7_AllowStep /\ C7_GlobalRun']_vars

C7_Witness ==
    /\ res.op = "htb_allow" /\ ~res.error /\ ~res.allowed /\ res.weight = 1
    /\ res.level = "global"
    /\ htb_admitted.unit_run /\ htb_admitted.n = htb_limits.global
    /\ htb_limits.global > 1
    /\ htb_limits.tenant >= htb_limits.global
    /\ htb_limits.user >= htb_limits.global
    /\ \E t \in HTBTenants : htb_tenant_buckets[t] # Absent
    /\ \A k \in Keys : htb_user_buckets[k] # Absent

(***************************************************************************)
(* C8: fair queuing.  allow(key, w) is admitted iff, on the in-window logs *)
(* at the moment of decision, the global usage is below FQGlobal, the      *)
(* key's usage is below max_per_key (when set), and the key's usage plus w *)
(* is at most its weighted fair share FQGlobal / max(1, A) * multiplier,   *)
(* A being the number of keys with a non-empty log.                        *)
(***************************************************************************)
C8_AdmissionRule ==
    (res.op = "fq_allow" /\ ~res.error) =>
        (res.allowed <=>
            /\ res.total < FQGlobal
            /\ (fq_max_per_key = 0 \/ res.used < fq_max_per_key)
            /\ (res.used + res.weight) * Max(1, res.active)
                  <= FQGlobal * FQWeightMultiplier(res.weight_class))

(***************************************************************************)
(* C9: fair queuing fairness.  When every key keeps submitting unit        *)
(* requests of equal weight from construction on within one window, in any *)
(* interleaving, then once every key has been turned away each key's       *)
(* admitted count is within FQFairSlack of FQGlobal / N, N the number of   *)
(* keys.                                                                   *)
(***************************************************************************)
C9_FairShares ==
    (fq_saturation.on /\ \A k \in Keys : fq_saturation.denied[k]) =>
        \A k \in Keys :
            LET n == Cardinality(Keys)
                d == fq_saturation.admitted[k] * n - FQGlobal
            IN  d <= FQFairSlack * n /\ -d <= FQFairSlack * n

(***************************************************************************)
(* C10: MemoryBackend.consume(key, w) on a key it finds is all or nothing: *)
(* either w is covered, the stored remaining drops by exactly w and the    *)
(* state returned is not a violation, or fewer than w remain, the stored   *)
(* record is the one found and the state returned has violated = true.     *)
(***************************************************************************)
C10_AllOrNothing ==
    (res.op = "mem_consume" /\ ~res.error /\ res.pre # Absent) =>
        \/ /\ res.pre.remaining >= res.weight
           /\ mem_store[res.key].remaining = res.pre.remaining - res.weight
           /\ ~res.violated
        \/ /\ res.pre.remaining < res.weight
           /\ mem_store[res.key] = res.pre
           /\ res.violated

(***************************************************************************)
(* C11: on a remote backend, under every interleaving of concurrent        *)
(* consume calls on one key, the calls that race to create the key         *)
(* included, the weight of every call that returned an admitted state has  *)
(* been subtracted from the stored remaining exactly once: the stored      *)
(* remaining is the limit less the admitted weights, and no admitted       *)
(* weight is recorded while the key has no row.                            *)
(***************************************************************************)
C11_AdmittedSubtractedOnce ==
    \A k \in RemoteKeys :
        IF remote_table[k] = Absent
        THEN remote_admitted[k] = 0
        ELSE remote_table[k].remaining = remote_table[k].limit_value - remote_admitted[k]

(***************************************************************************)
(* C12: check(key) is a pure observation.  Whatever checks were made       *)
(* before it, at whatever times, an allow decides as it would have decided *)
(* had none of them been made, and returns the same remaining.  Shown here *)
(* for the leaky bucket: lb_unobserved is the bucket table of the same     *)
(* run of allows and resets without its checks.                            *)
(***************************************************************************)
C12_CheckIsPure ==
    (res.op = "lb_allow" /\ ~res.error) =>
        /\ res.allowed = res.unobserved.allowed
        /\ res.state.remaining = res.unobserved.state.remaining

(***************************************************************************)
(* C13: key isolation.  An allow on key a changes neither what check(b)    *)
(* reports for another key b nor whether allow(b, w) would be admitted.    *)
(* As stated, for every algorithm: C13_KeyIsolationEveryAlgorithm.  It     *)
(* holds for the algorithms that keep one record per key (token bucket,    *)
(* sliding window, leaky bucket, fixed window, GCRA):                      *)
(* C13_KeyIsolationPerKeyAlgorithms.  Fair queueing divides one global     *)
(* limit among the active keys, so an allow on a moves b's share.          *)
(***************************************************************************)
C13_AllowOps == {"tb_allow", "sw_allow", "lb_allow", "fw_allow", "gcra_allow", "fq_allow"}

C13_View(key) ==
    [check |-> AlgCheckState(key),
     admits |-> [w \in AlgWeights \ {0} |-> AlgAdmits(key, w)]]

C13_AllowLeaves(a, b) ==
    (a # b /\ res'.op \in C13_AllowOps /\ res'.key = a) => C13_View(b)' = C13_View(b)

C13_KeyIsolationEveryAlgorithm ==
    [][\A a \in Keys, b \in Keys : C13_AllowLeaves(a, b)]_vars

C13_KeyIsolationPerKeyAlgorithms ==
    [][algorithm # "fair_queueing" => \A a \in Keys, b \in Keys : C13_AllowLeaves(a, b)]_vars

\* A leaky-bucket allow on one key was admitted while the other key holds
\* entries in its queue and has room left.
C13_Witness ==
    /\ algorithm = "leaky_bucket"
    /\ res.op = "lb_allow"
    /\ ~res.error
    /\ res.allowed
    /\ \E b \in Keys : /\ b # res.key
                       /\ lb_buckets[b] # Absent
                       /\ Len(lb_buckets[b].queue) > 0
                       /\ AlgCheckState(b)[2] > 0

(***************************************************************************)
(* C14: reset effect on the tiered limiter.  After reset(key), whatever    *)
(* came before, check(key) reports the initial state (remaining = limit):  *)
(* on the named tier when a tier is given, on every limited tier when the  *)
(* tier is omitted.                                                        *)
(***************************************************************************)
C14_ResetRestoresInitialState ==
    (res.op = "pl_reset" /\ res.error = "none") =>
        \A t \in PLLimited :
            (res.tier = NoTier \/ res.tier = t) =>
                PLCheckState(t, PLTierKey(t, res.key), now).remaining = PLLimit(t)

(***************************************************************************)
(* C15: invalid requests are rejected, not decided.  An allow on the       *)
(* tiered limiter with weight <= 0 or naming an unknown tier raises an     *)
(* error and is neither admitted nor denied, on every path, an unlimited   *)
(* tier included.                                                          *)
(***************************************************************************)
C15_InvalidRequestsRejected ==
    (res.op = "pl_allow" /\ (res.weight <= 0 \/ PLResolve(res.tier) \notin PLTiers)) =>
        res.error # "none"

(***************************************************************************)
(* C16: retry_after is enough of a wait.  If allow(k, w), for a weight     *)
(* within the limit, is denied now with retry_after = r, and nothing else  *)
(* touches the limiter, then the same allow at now + r is admitted.        *)
(* C16_RetriedAt is the decision at now + r on the record that the denial  *)
(* stored; a token bucket has gained retry_after units by then and a leaky *)
(* bucket has leaked the entries counted in retry_after.                   *)
(***************************************************************************)
C16_RetriedAt(key, weight) ==
    CASE algorithm = "token_bucket" ->
           LET d == TBDecide(tb_buckets[key], weight, now) IN
           d.allowed \/ Min(TBFull, d.bucket.tokens + d.retry_after) >= weight * TBDen
      [] algorithm = "sliding_window" ->
           LET d == SWDecide(sw_requests[key], weight, now) IN
           d.allowed \/ SWDecide(d.requests, weight, now + d.retry_after).allowed
      [] algorithm = "leaky_bucket" ->
           LET d == LBDecide(lb_buckets[key], weight, now)
               size == Len(LBQueue(d.bucket))
               leaks == d.state.retry_after.num \div LBLeakDen IN
           d.allowed \/ (size - Min(leaks, size)) + weight <= LBCapacity
      [] algorithm = "fixed_window" ->
           LET d == FWDecide(fw_windows[key], weight, now) IN
           d.allowed \/ FWDecide(d.window, weight, now + d.retry_after).allowed
      [] algorithm = "gcra" ->
           LET d == GCRADecide(gcra_tats[key], weight, GCRATime(now)) IN
           d.allowed \/ GCRADecide(d.tat, weight, GCRATime(now) + d.retry_after).allowed
      [] OTHER -> TRUE

C16_Limit ==
    CASE algorithm = "token_bucket" -> TBCapacity
      [] algorithm = "sliding_window" -> SWLimit
      [] algorithm = "leaky_bucket" -> LBCapacity
      [] algorithm = "fixed_window" -> FWLimit
      [] algorithm = "gcra" -> GCRABurst
      [] OTHER -> 0

C16_RetryAfterSuffices ==
    \A k \in Keys : \A w \in 1 .. C16_Limit : C16_RetriedAt(k, w)

(***************************************************************************)
(* C17: upgrade_tier(key, F, T, preserve_state = true) between two limited *)
(* tiers debits the key's T counter by                                     *)
(* floor(limit_T * (limit_F - remaining_F) / limit_F) and then resets the  *)
(* key's F counter.                                                        *)
(***************************************************************************)
C17_CarriedUsage ==
    (PLLimit(res.to_tier) * (res.before.from.limit - res.before.from.remaining))
        \div res.before.from.limit

C17_UpgradePreservesState ==
    (/\ res.op = "pl_upgrade"
     /\ res.error = "none"
     /\ res.preserve_state
     /\ res.limited
     /\ res.from_tier # res.to_tier) =>
        /\ PLCheckState(res.to_tier, PLTierKey(res.to_tier, res.key), now).remaining
               = res.before.to.remaining - C17_CarriedUsage
        /\ PLCheckState(res.from_tier, PLTierKey(res.from_tier, res.key), now).remaining
               = PLLimit(res.from_tier)

(***************************************************************************)
(* C18: upgrade_tier(key, F, T, preserve_state = false) resets the key's   *)
(* F counter and leaves its T counter fresh: check(key, T) reports T's     *)
(* initial state whatever the key had consumed on T or F before.           *)
(***************************************************************************)
C18_UpgradeStartsFresh ==
    (/\ res.op = "pl_upgrade"
     /\ res.error = "none"
     /\ ~res.preserve_state
     /\ res.limited) =>
        /\ PLCheckState(res.from_tier, PLTierKey(res.from_tier, res.key), now).remaining
               = PLLimit(res.from_tier)
        /\ PLCheckState(res.to_tier, PLTierKey(res.to_tier, res.key), now).remaining
               = PLLimit(res.to_tier)

(***************************************************************************)
(* C19: in a pool created with its default options, the consume of a       *)
(* member that has used nothing yet (without force, of a positive weight)  *)
(* is admitted whenever the pool still holds that many tokens.             *)
(***************************************************************************)
C19_ConsumeWhileQuotaLeft ==
    (/\ res.op = "qp_consume"
     /\ qp_options = QPDefaultOptions
     /\ ~res.force
     /\ res.weight > 0
     /\ res.usage = 0
     /\ res.tokens >= res.weight * QPWindow) =>
        (~res.error /\ res.allowed)

(***************************************************************************)
(* C20: quota pool caps.  A consume without force is rejected whenever     *)
(* member_used + w > max_per_member, so while no forced consume has been   *)
(* admitted every member's recorded usage is <= max_per_member.  A forced  *)
(* consume of a positive weight skips the fair-share and max_per_member    *)
(* tests but not the pool bucket: it is admitted iff the bucket holds at   *)
(* least w tokens.  The member's usage grows by exactly w on admission and *)
(* no usage changes on rejection.                                          *)
(***************************************************************************)
C20_WithinMax ==
    (~qp_forced /\ qp_options.max_per_member # 0) =>
        \A m \in QPMembers : QPUsage(qp_member_usage, m) <= qp_options.max_per_member

C20_ConsumeStep ==
    res'.op = "qp_consume" =>
        LET m == res'.member_id
            w == res'.weight
            admitted == ~res'.error /\ res'.allowed IN
        /\ (/\ ~res'.force
            /\ qp_options.max_per_member # 0
            /\ QPUsage(qp_member_usage, m) + w > qp_options.max_per_member) => ~admitted
        /\ (res'.force /\ w > 0) =>
               (admitted <=> QPRefillTokens(qp_bucket, now) >= w * QPWindow)
        /\ admitted =>
               /\ QPUsage(qp_member_usage', m) = QPUsage(qp_member_usage, m) + w
               /\ \A o \in QPMembers \ {m} : qp_member_usage'[o] = qp_member_usage[o]
        /\ ~admitted => qp_member_usage' = qp_member_usage

C20_QuotaPoolCaps == [](C20_WithinMax) /\ [][C20_ConsumeStep]_vars

\* A forced consume was admitted past the member's max_per_member.
C20_Witness ==
    /\ res.op = "qp_consume"
    /\ res.force
    /\ ~res.error
    /\ res.allowed
    /\ qp_options.max_per_member # 0
    /\ QPUsage(qp_member_usage, res.member_id) > qp_options.max_per_member

(***************************************************************************)
(* C21: quota pool rollover.  With rollover enabled, when a window ends    *)
(* (reset) with R tokens remaining, floor(R * rollover_percent) is carried *)
(* into the next window: the capacity the pool reports right after the     *)
(* reset is total_quota plus that amount.                                  *)
(***************************************************************************)
C21_RolloverCarried ==
    [][(res'.op = "qp_reset" /\ qp_options.rollover) =>
           QPRemaining(qp_bucket', now')
               = QPTotal + (QPRemaining(qp_bucket, now) * qp_options.rollover_percent) \div 100]_vars

(***************************************************************************)
(* C22: adaptive limiter bounds.  In every reachable state                 *)
(* ceil(0.1 * base_limit) <= current_limit <= base_limit, so that          *)
(* current_limit >= 1 for any base_limit >= 1.                             *)
(***************************************************************************)
C22_LimitWithinBounds ==
    /\ (al_base_limit + 9) \div 10 <= al_current_limit
    /\ al_current_limit <= al_base_limit

(***************************************************************************)
(* C23: adaptive increase is conjunctive.  An evaluation takes the         *)
(* increase branch only if the observed error rate is below                *)
(* error_threshold / 2, the average latency is below                       *)
(* latency_threshold / 2 and current_limit < base_limit.  A signal without *)
(* any sample is read as healthy here.                                     *)
(***************************************************************************)
C23_ErrorRateHealthy ==
    al_results.n = 0 \/ 2 * ALErrorThresholdDen * al_results.errors < al_results.n

C23_LatencyHealthy ==
    al_latencies.n = 0 \/ 2 * al_latencies.sum < ALLatencyThreshold * al_latencies.n

C23_IncreaseIsConjunctive ==
    [][(res'.op = "al_allow" /\ res'.direction = "increase") =>
           /\ C23_ErrorRateHealthy
           /\ C23_LatencyHealthy
           /\ al_current_limit < al_base_limit]_vars

(***************************************************************************)
(* C24: adaptive hysteresis.  Under the non-decreasing clock any two       *)
(* adjustments (increments of the adaptation counter) are at least         *)
(* check_interval apart, whatever allow calls and signal recordings occur  *)
(* in between.                                                             *)
(***************************************************************************)
C24_OneAdjustmentPerInterval ==
    [][al_adaptations' # al_adaptations =>
           /\ al_adaptations' = al_adaptations + 1
           /\ al_adapted_at # Absent => now' - al_adapted_at.t >= ALCheckInterval]_vars

\* Two adjustments have happened.
C24_Witness == al_adaptations >= 2 /\ res.op = "al_allow" /\ res.direction # "none"

(***************************************************************************)
(* C25: multi-region failover policies.  When the regional consume fails,  *)
(* the decision is the configured policy's: 'deny' denies with             *)
(* violated = true, 'allow' admits, and 'local_cache' returns the cached   *)
(* state of the key, admitting iff that state has remaining >= weight.     *)
(* Nothing is asked of 'local_cache' when the key has no cached state.     *)
(***************************************************************************)
C25_FailoverFollowsPolicy ==
    [][(res'.op = "mr_allow" /\ res'.failed /\ ~res'.error) =>
           LET cached_state == MRGetFromCache(mr_cache, "k", now) IN
           /\ mr_failover_mode = "deny" => (~res'.allowed /\ res'.state.violated)
           /\ mr_failover_mode = "allow" => res'.allowed
           /\ (mr_failover_mode = "local_cache" /\ cached_state # Absent) =>
                  /\ res'.state = cached_state
                  /\ res'.allowed <=> (cached_state.remaining >= res'.weight)]_vars

(***************************************************************************)
(* C26: backend failures are never swallowed.  When the regional backend   *)
(* fails during check, the caller gets the error or the outcome of the     *)
(* failover policy (the cached state, a violated state under 'deny', a     *)
(* permissive state under 'allow'), never a neutral state; a reset that    *)
(* did not reach the region is not reported as done.                       *)
(***************************************************************************)
C26_FailuresSurface ==
    [][/\ (res'.op = "mr_check" /\ res'.failed) =>
              \/ res'.error
              \/ mr_failover_mode = "deny" /\ res'.state.violated
              \/ mr_failover_mode = "allow" /\ res'.state.remaining > 0
              \/ /\ mr_failover_mode = "local_cache"
                 /\ mr_cache["k"] # Absent
                 /\ res'.state = mr_cache["k"].state
       /\ (res'.op = "mr_reset" /\ res'.failed) => res'.error]_vars

(***************************************************************************)
(* C27: hooks never abort the decision.  Whatever callbacks are            *)
(* registered, raising ones included, allow returns or raises what it does *)
(* with no hooks registered and leaves the same bucket, no exception of a  *)
(* callback reaches the caller, and the callbacks of each event that fired *)
(* run once each in registration order.                                    *)
(***************************************************************************)
C27_FiredOf(fired, event) == SelectSeq(fired, LAMBDA f : f[1] = event)

C27_HooksNeverAbort ==
    [][res'.op = "hk_allow" =>
           LET plain == HKAllowOutcome(HKNoHooks, hk_bucket, hk_raise_on_limit,
                                       res'.weight, now) IN
           /\ res'.exc = plain.exc
           /\ res'.exc # "hook"
           /\ res'.allowed = plain.allowed
           /\ hk_bucket' = plain.bucket
           /\ \A e \in HKEvents :
                  LET called == C27_FiredOf(res'.fired, e) IN
                  \/ called = <<>>
                  \/ called = [i \in 1 .. Len(hk_hooks[e]) |-> <<e, hk_hooks[e][i]>>]
           /\ C27_FiredOf(res'.fired, "before_check")
                  = [i \in 1 .. Len(hk_hooks["before_check"]) |->
                         <<"before_check", hk_hooks["before_check"][i]>>]]_vars

\* An allow ran a raising callback and then a further callback of the same event.
C27_Witness ==
    /\ res.op = "hk_allow"
    /\ \E i \in 1 .. Len(res.fired) - 1 :
           /\ res.fired[i][2] = "raises"
           /\ res.fired[i + 1][1] = res.fired[i][1]

(***************************************************************************)
(* C28: TTL cleanup in MemoryBackend.  A key whose record was last written *)
(* (consume or set_state) more than ttl_seconds ago is reported absent by  *)
(* check, whether or not a cleanup pass is due, and a consume on it starts *)
(* from a fresh record: limit = weight, remaining = 0, stamped now.        *)
(***************************************************************************)
C28_Expired(key) ==
    /\ mem_ttl_seconds # 0
    /\ mem_store[key] # Absent
    /\ now - mem_store[key].timestamp > mem_ttl_seconds

C28_ExpiredKeyIsAbsent ==
    [][/\ (res'.op = "mem_check" /\ C28_Expired(res'.key)) =>
              /\ ~res'.found
              /\ res'.limit = 0
              /\ mem_store'[res'.key] = Absent
       /\ (res'.op = "mem_consume" /\ ~res'.error /\ C28_Expired(res'.key)) =>
              /\ res'.limit = res'.weight
              /\ res'.remaining = 0
              /\ mem_store'[res'.key].timestamp = now]_vars

\* A check reported a stored record absent in a call that made no cleanup
\* pass: the record had outlived the ttl between two passes.
C28_Witness ==
    /\ res.op = "mem_check"
    /\ res.stored
    /\ ~res.found
    /\ mem_ttl_seconds # 0
    /\ mem_last_cleanup # now

(***************************************************************************)
(* C29.  Concurrent admission is linearizable per algorithm instance: when *)
(* N threads call allow(k, 1) concurrently on a key with C units available *)
(* and no refill in between, exactly min(N, C) calls are admitted, every   *)
(* admitted call's debit is recorded, and the results equal those of some  *)
(* sequential order of the calls.  Checked when every call of a batch has  *)
(* returned at the instant the batch began: the calls that returned, the   *)
(* units the key held for that instant, the stored state, and the results  *)
(* against those of the same number of calls made one after the other.     *)
(***************************************************************************)
C29_Done == {t \in CTThreads : ct_pc[t] = "done"}

C29_Settled ==
    /\ \A t \in CTThreads : ct_pc[t] \in {"idle", "done"}
    /\ C29_Done # {}
    /\ now = ct_start

C29_Units ==
    IF ct_algorithm = "token_bucket"
    THEN TBRefillTokens(ct_base, ct_start).tokens \div TBDen
    ELSE FWLimit - FWGetCurrentWindow(ct_base, ct_start).count

RECURSIVE C29_Sequential(_, _, _, _)
C29_Sequential(alg, stored, n, current_time) ==
    IF n = 0
    THEN [state |-> stored, results |-> <<>>]
    ELSE LET d == CTDecide(alg, stored, current_time)
             rest == C29_Sequential(alg, IF d.stores THEN d.stored ELSE stored, n - 1, current_time)
         IN  [state |-> rest.state,
              results |-> <<[allowed |-> d.allowed, remaining |-> d.remaining]>> \o rest.results]

C29_Admitted == Cardinality({t \in C29_Done : ct_local[t].allowed})

C29_Linearizable ==
    C29_Settled =>
        LET n == Cardinality(C29_Done)
            seq == C29_Sequential(ct_algorithm, ct_base, n, ct_start)
        IN  /\ C29_Admitted = Min(n, C29_Units)
            /\ ct_state = seq.state
            /\ \E order \in [1 .. n -> C29_Done] :
                   /\ \A i, j \in 1 .. n : order[i] = order[j] => i = j
                   /\ \A i \in 1 .. n :
                          /\ ct_local[order[i]].allowed = seq.results[i].allowed
                          /\ ct_local[order[i]].remaining = seq.results[i].remaining

\* Three calls returned on a key that held fewer units than that, at least one.
C29_Witness ==
    /\ C29_Settled
    /\ C29_Done = CTThreads
    /\ C29_Units >= 1
    /\ C29_Units < Cardinality(CTThreads)
    /\ C29_Admitted = C29_Units

(***************************************************************************)
(* C30.  Bounded retry on a lost race: a remote consume that loses a       *)
(* compare-and-set or insert race retries at most a small fixed number of  *)
(* times (about 3) and then returns a decision or raises a backend error;  *)
(* no stored state and no interleaving makes it retry without bound.       *)
(* Stated on the MongoDB consume in flight: it has called itself again at  *)
(* most three times.                                                       *)
(***************************************************************************)
C30_BoundedRetry ==
    \A c \in RemoteClients :
        (remote_kind = "mongodb" /\ remote_calls[c] # RemoteIdle) => remote_calls[c].retries <= 3

(***************************************************************************)
(* C31.  Fair queuing ceilings are hard: after any sequence of weighted    *)
(* allow calls, the in-window admitted weight of each key is at most       *)
(* max_per_key (when set) and the in-window admitted weight summed over    *)
(* all keys is at most the global limit.  Stated on the logs the algorithm *)
(* keeps, which hold one entry per unit admitted since the key's last      *)
(* reset.                                                                  *)
(***************************************************************************)
C31_PerKeyCeiling ==
    \A k \in Keys : fq_max_per_key # 0 => FQUsed(fq_key_counts, k, now) <= fq_max_per_key

C31_GlobalCeiling ==
    SumOver([k \in Keys |-> FQUsed(fq_key_counts, k, now)], Keys) <= FQGlobal

C31_HardCeilings == C31_PerKeyCeiling /\ C31_GlobalCeiling

(***************************************************************************)
(* C32.  Leaky bucket progress: once a key's bucket is full and no further *)
(* request is admitted, the bucket drains as time advances however often   *)
(* the key is observed; a caller that keeps retrying a denied allow(k, 1)  *)
(* or polling check(k) is still admitted once leak_period / leak_rate has  *)
(* elapsed since the bucket filled.  A stored queue of LBCapacity entries  *)
(* has been full since its last entry was appended; an allow(k, 1) made    *)
(* LBLeakDen / LBLeakNum ticks or more after that instant is admitted.     *)
(***************************************************************************)
C32_FullSince(bucket) == bucket.queue[Len(bucket.queue)]

C32_RetryStep ==
    (res'.op = "lb_allow" /\ ~res'.error /\ res'.weight = 1) =>
        LET bucket == lb_buckets[res'.key] IN
        (/\ bucket # Absent
         /\ Len(bucket.queue) = LBCapacity
         /\ (now - C32_FullSince(bucket)) * LBLeakNum >= LBLeakDen) => res'.allowed

C32_DrainsUnderObservation == [][C32_RetryStep]_vars

(***************************************************************************)
(* C33.  Changing the limit keeps what keys have already consumed: when    *)
(* the adaptive limiter reduces its limit, no key's remaining allowance    *)
(* increases, so a key that was denied immediately before the reduction is *)
(* still denied immediately after it.  Stated on the allow that reduces:   *)
(* the tokens the key holds at that instant after the call are at most the *)
(* tokens it held at that instant before the call.                         *)
(***************************************************************************)
C33_ReduceStep ==
    (res'.op = "al_allow" /\ res'.direction = "reduce" /\ al_current_limit' > 0) =>
        ALRefillTokens(al_bucket', al_capacity', now) <= ALRefillTokens(al_bucket, al_capacity, now)

C33_ReductionKeepsUsage == [][C33_ReduceStep]_vars

(***************************************************************************)
(* C34.  Multi-region admission with healthy regions: every request        *)
(* admitted by allow(key, w) debits w from the regional backend's record   *)
(* for the key, so the total weight admitted for a key never exceeds what  *)
(* the regional backend had remaining; the local cache is consulted only   *)
(* when the regional backend fails.  Stated on an allow that is admitted   *)
(* without a regional failure, for a key the region has a record of: the   *)
(* record covered w and holds w less afterwards.                           *)
(***************************************************************************)
C34_AdmitStep ==
    (/\ res'.op = "mr_allow"
     /\ ~res'.failed
     /\ ~res'.error
     /\ res'.allowed
     /\ mr_region["k"] # Absent) =>
        /\ mr_region["k"].remaining >= res'.weight
        /\ mr_region'["k"] # Absent
        /\ mr_region'["k"].remaining = mr_region["k"].remaining - res'.weight

C34_AdmissionsDebitRegion == [][C34_AdmitStep]_vars

(***************************************************************************)
(* C35.  Adaptive recovery is live: from any reduced state (current_limit  *)
(* below base_limit), if all signals stay healthy at every subsequent      *)
(* evaluation, current_limit strictly increases at each evaluation until   *)
(* it equals base_limit, which it reaches after finitely many check        *)
(* intervals; the adaptation counter only advances when the limit actually *)
(* changes.  Stated on one allow: an evaluation that takes the increase    *)
(* branch leaves a larger current_limit, and a step that advances          *)
(* _adaptations changes current_limit.                                     *)
(***************************************************************************)
C35_RecoveryStep ==
    res'.op = "al_allow" =>
        /\ res'.direction = "increase" => al_current_limit' > al_current_limit
        /\ al_adaptations' # al_adaptations => al_current_limit' # al_current_limit

C35_RecoveryProgresses == [][C35_RecoveryStep]_vars

(***************************************************************************)
(* C36.  Fixed-window admission is robust to clock jitter: even if the     *)
(* time source returns a reading earlier than one already used for the     *)
(* key, the total weight admitted with timestamps in any one aligned       *)
(* window [n*W, (n+1)*W) stays at most the limit.                          *)
(***************************************************************************)
C36_WindowBoundUnderJitter ==
    \A n \in FWJWindows : fwj_admitted[n] <= FWLimit

(***************************************************************************)
(* C37.  check and allow agree: for each single-key algorithm (token       *)
(* bucket, leaky bucket, fixed window, sliding window, GCRA) and every     *)
(* w >= 1, whenever check(k) reports remaining >= w, an allow(k, w) issued *)
(* at the same instant is admitted, and whenever check(k) reports          *)
(* remaining = 0, an allow(k, 1) at that instant is denied.  Stated in     *)
(* every state, on what check would report and what allow would decide     *)
(* from that state at the instant now.                                     *)
(***************************************************************************)
C37_Agree(remaining, weights, admits(_)) ==
    /\ \A w \in weights : (w >= 1 /\ remaining >= w) => admits(w)
    /\ remaining = 0 => ~admits(1)

C37_TokenBucket ==
    \A k \in Keys :
        C37_Agree(TBRefillTokens(tb_buckets[k], now).tokens \div TBDen, TBWeights,
                  LAMBDA w : TBDecide(tb_buckets[k], w, now).allowed)

C37_LeakyBucket ==
    \A k \in Keys :
        C37_Agree(Max(0, LBCapacity - Len(LBQueue(LBLeakBucket(lb_buckets[k], now)))), LBWeights,
                  LAMBDA w : LBDecide(lb_buckets[k], w, now).allowed)

C37_FixedWindow ==
    \A k \in Keys :
        C37_Agree(Max(0, FWLimit - FWGetCurrentWindow(fw_windows[k], now).count), FWWeights,
                  LAMBDA w : FWDecide(fw_windows[k], w, now).allowed)

C37_SlidingWindow ==
    \A k \in Keys :
        C37_Agree(Max(0, SWLimit - Len(SWCleanupOldRequests(sw_requests[k], now))), SWWeights,
                  LAMBDA w : SWDecide(sw_requests[k], w, now).allowed)

C37_GCRA ==
    \A k \in Keys :
        C37_Agree(GCRACheckRemaining(gcra_tats[k], GCRATime(now)), GCRAWeights,
                  LAMBDA w : GCRADecide(gcra_tats[k], w, GCRATime(now)).allowed)

C37_CheckAgreesWithAllow ==
    C37_TokenBucket /\ C37_LeakyBucket /\ C37_FixedWindow /\ C37_SlidingWindow /\ C37_GCRA

(***************************************************************************)
(* C38.  Fair-share never starves a lone member: in a QuotaPool with       *)
(* fair_share enabled, while only one member has consumed from the pool,   *)
(* that member's consume(w) is admitted whenever the pool bucket holds     *)
(* >= w tokens (and w fits max_per_member), so a sole member can use the   *)
(* pool's whole quota.  Stated on a consume without force by a member that *)
(* has usage, when no other member is recorded and what is missing from    *)
(* the bucket is exactly that member's usage.                              *)
(***************************************************************************)
C38_LoneMemberNotStarved ==
    (/\ res.op = "qp_consume"
     /\ qp_options.fair_share
     /\ ~res.force
     /\ res.weight > 0
     /\ res.usage > 0
     /\ \A m \in QPMembers \ {res.member_id} : qp_member_usage[m] = Absent
     /\ res.tokens = (QPTotal - res.usage) * QPWindow
     /\ res.tokens >= res.weight * QPWindow
     /\ ~QPOverMax(qp_options.max_per_member, res.usage, res.weight)) =>
        (~res.error /\ res.allowed)

(***************************************************************************)
(* C39.  The adaptive limiter and the limiter it wraps never disagree:     *)
(* after any sequence of allow, record_success, record_error, adaptation   *)
(* and reset calls, AdaptiveRateLimiter.current_limit equals the limit     *)
(* actually enforced by the wrapped RateLimiter.                           *)
(***************************************************************************)
C39_LimitsAgree == al_current_limit = al_capacity

(***************************************************************************)
(* C40.  Tier migration is atomic with respect to concurrent admissions:   *)
(* if allow(key, tier=F) calls run concurrently with                       *)
(* upgrade_tier(key, F, T, preserve_state=true), every unit admitted on F  *)
(* before F's counter is reset is included in the amount debited from T,   *)
(* and two concurrent upgrades of the same key debit T only once.          *)
(* The first half: when an upgrade resets F's counter, the usage it        *)
(* carried to T is the usage F's counter holds at that instant.  The       *)
(* second half: what the upgrades have taken from T never exceeds the      *)
(* share of T's limit that the weight admitted on F amounts to.            *)
(***************************************************************************)
C40_ResetStep ==
    \A u \in PUThreads :
        (pu_pc[u] = "reset" /\ pu_pc'[u] = "done") =>
            pu_state[u].remaining
                = PLCheckState(PUFrom, PLTierKey(PUFrom, PUKey), now).remaining

C40_AdmittedAreCarried == [][C40_ResetStep]_vars

C40_DebitedOnce == pu_debited <= (PLLimit(PUTo) * pu_admitted) \div PLLimit(PUFrom)

C40_MigrationAtomic == C40_AdmittedAreCarried /\ []C40_DebitedOnce

====
